---- MODULE Spec2Model ----
(***************************************************************************)
(* A model of ash, a small interactive Unix shell (Albab-Hasan/Ash).       *)
(*                                                                         *)
(* Spec      the interactive shell: read-eval loop, job table, foreground  *)
(*           wait, asynchronous reaper, terminal ownership, and the child  *)
(*           processes that run concurrently with it.                      *)
(* SpecBg    the same machine restricted to runs whose jobs are all        *)
(*           launched with a trailing `&`.                                 *)
(* SpecVars  the variable store and the process environment.               *)
(* SpecEval  parse_and_execute / parse_stream on `&&`, `||`, if and while. *)
(* SpecWords the argv of one simple command: split_command_line, then      *)
(*           expand_vars, on command lines spelled character by character. *)
(* SpecStream parse_stream over the lines of a -c string or a script, up   *)
(*           to the exit of the shell process, and the same text typed on  *)
(*           one line at the interactive prompt.                           *)
(* SpecAlias expand_aliases on the argv of one command, one pass of its    *)
(*           loop at a time.                                               *)
(* SpecLaunch execute_command and execute_pipeline one system call at a    *)
(*           time, with the children running concurrently, in interactive  *)
(*           and non-interactive shells.                                   *)
(* SpecPipe  SpecLaunch started with an empty job table, for the pipe      *)
(*           descriptors and signal dispositions of the children.          *)
(* SpecRedir handle_redirection in the child on the argv of one command.   *)
(* SpecHeredoc the `<<` branch of handle_redirection, one getline at a     *)
(*           time, with the parent reading the same standard input.        *)
(***************************************************************************)
EXTENDS Integers, Naturals, Sequences, FiniteSets, TLC

VARIABLES
  pc,           \* where the shell process is: "reap", "read" or "wait"
  jobs,         \* job_t jobs[MAX_JOBS]
  procs,        \* the children forked so far, by pid
  tty_pgrp,     \* tcgetpgrp(shell_terminal)
  termios,      \* the terminal modes: "saved" (shell_tmodes) or "changed"
  last_status,  \* int last_status
  waitJob,      \* slot of the job wait_for_job is blocked on, -1 if none
  waitCtx,      \* the caller of put_job_in_foreground: "cmd", "pipe", "fg", "none"
  wstatus,      \* what the last foreground wait saw of the leader
  out,          \* the notices printed by the last step of the shell
  obs,          \* the job transitions the last step of the shell observed
  vars,         \* var_t vars[MAX_VARS]: the shell's variable store
  env,          \* the process environment (setenv / getenv)
  line,         \* the statement handed to the evaluator
  trace,        \* the simple commands the evaluator has run, in order
                \* (in SpecAlias: the first words expand_aliases replaced)
  loops,        \* passes of the while loop's body run so far
  epc,          \* where parse_stream is: "start", "loop", "return" or "done"
  lines,        \* char *lines[MAX_LINES] of parse_stream
  lineno,       \* the index i of parse_stream into lines, counted from 1
  loop_control_flag,  \* 0 normal, 1 break, 2 continue
  exit_code,    \* the exit status of the shell process, -1 while it runs
  diag,         \* the diagnostics written to stderr
  cmdline,      \* the command line whose argv is built
  args,         \* char **args: the argv built so far
  wpc,          \* how far the argv is built: "line", "split", "expanded"
  aliases,      \* alias_t aliases[MAX_ALIASES]: the values by name
  alias_depth,  \* int depth of expand_aliases
  cwd,          \* the working directory of the shell process
  launch,       \* execute_command / execute_pipeline under way: its locals
  io,           \* the descriptors and input of the child in handle_redirection
  typed         \* per line typed at the prompt, the simple commands it ran

sv == <<pc, jobs, procs, tty_pgrp, termios, last_status, waitJob, waitCtx,
        wstatus, out, obs, vars, env, line, trace, loops, epc,
        lines, lineno, loop_control_flag, exit_code, diag, cmdline, args, wpc,
        aliases, alias_depth, cwd, launch, io, typed>>

jobVars  == <<pc, jobs, procs, tty_pgrp, termios, last_status, waitJob,
              waitCtx, wstatus, out, obs>>
varVars  == <<vars, env>>
streamVars == <<lines, lineno, loop_control_flag, exit_code, diag>>
wordVars == <<cmdline, args, wpc>>
shellVars == <<aliases, alias_depth, cwd, launch, io, typed>>
evalVars == <<line, trace, loops, epc, streamVars, wordVars, shellVars>>

----------------------------------------------------------------------------
(* Program constants and model bounds *)

MAX_JOBS == 32

\* the number of children the shell forks in one run
MaxProcs == 2

\* the longest pipeline launched
MaxStages == 2

\* the shell's own process group; children have pids 1..MaxProcs
shell_pgid == 0

Pids == 1..MaxProcs

\* exit codes a child may terminate with
ExitCodes == {0, 3}

Slots == 0..(MAX_JOBS - 1)

----------------------------------------------------------------------------
(* The job table (jobs.c) *)

FreeJob == [pid |-> -1, pgid |-> -1, job_id |-> -1,
            running |-> FALSE, foreground |-> FALSE, notified |-> FALSE]

jobs_init == [i \in Slots |-> FreeJob]

HasFreeSlot(jt) == \E i \in Slots : jt[i].pid = -1

\* a scan from the top of the table: the highest slot whose pid is -1
alloc_from_top(jt) ==
  CHOOSE i \in Slots : jt[i].pid = -1 /\ \A k \in (i + 1)..(MAX_JOBS - 1) : jt[k].pid # -1

\* alloc_job_slot: the lowest slot whose pid is -1
alloc_job_slot(jt) == CHOOSE i \in Slots : jt[i].pid = -1 /\ \A k \in 0..(i - 1) : jt[k].pid # -1

\* add_job: fills the slot alloc_job_slot returns; the id is slot + 1
add_job(jt, pid, pgid, bg) ==
  LET s == alloc_job_slot(jt) IN
  [jt EXCEPT ![s] = [pid |-> pid, pgid |-> pgid, job_id |-> s + 1,
                     running |-> TRUE, foreground |-> ~bg, notified |-> FALSE]]

remove_job(jt, job_id) ==
  IF job_id <= 0 \/ job_id > MAX_JOBS THEN jt
  ELSE IF jt[job_id - 1].pid = -1 THEN jt
  ELSE [jt EXCEPT ![job_id - 1] = FreeJob]

\* find_job_by_pid: the first slot holding pid, -1 for NULL
find_job_by_pid(jt, pid) ==
  IF \E i \in Slots : jt[i].pid = pid
  THEN CHOOSE i \in Slots : jt[i].pid = pid /\ \A k \in 0..(i - 1) : jt[k].pid # pid
  ELSE -1

\* the loop of the fg and bg builtins: the first slot whose job_id equals id
find_job_by_id(jt, id) ==
  IF \E i \in Slots : jt[i].job_id = id
  THEN CHOOSE i \in Slots : jt[i].job_id = id /\ \A k \in 0..(i - 1) : jt[k].job_id # id
  ELSE -1

----------------------------------------------------------------------------
(* Child processes and the controlling terminal (the kernel's side) *)

NoProc == [st |-> "none", pgid |-> -1, bg |-> FALSE, code |-> 0, reported |-> FALSE]

\* a child that has been forked and not yet reaped keeps its process group alive
Live == {"forked", "running", "stopped", "zombie"}

NextPid(ps) == 1 + Cardinality({p \in Pids : ps[p].st # "none"})

\* waitpid(..., WUNTRACED) has something to report about p
Pending(ps, p) == ps[p].st = "zombie" \/ (ps[p].st = "stopped" /\ ~ps[p].reported)

GroupExists(ps, pg) == pg = shell_pgid \/ \E p \in DOMAIN ps : ps[p].st \in Live /\ ps[p].pgid = pg

\* tcsetpgrp(shell_terminal, pg): fails, leaving the tty alone, when pg names no
\* process group of the session.  The shell ignores SIGTTOU and a child calls
\* it before it resets SIGTTOU, so the call is never stopped by SIGTTOU.
Tcsetpgrp(ps, tty, pg) == IF GroupExists(ps, pg) THEN pg ELSE tty

\* kill(-pg, SIGCONT): every stopped member of the group runs again
Sigcont(ps, pg) ==
  [p \in DOMAIN ps |-> IF ps[p].st = "stopped" /\ ps[p].pgid = pg
                  THEN [ps[p] EXCEPT !.st = "running", !.reported = FALSE]
                  ELSE ps[p]]

\* fork() of n children for one job led by pid first; the parent's
\* setpgid(pid, pgid) and the child's own put every stage in group first
Fork(ps, first, n, bg) ==
  [p \in Pids |-> IF p \in first..(first + n - 1)
                  THEN [st |-> "forked", pgid |-> first, bg |-> bg, code |-> 0,
                        reported |-> FALSE]
                  ELSE ps[p]]

\* a child that takes the terminal whether or not it runs in the background
ChildTtyAlways(ps, tty, p) == Tcsetpgrp(ps, tty, ps[p].pgid)

\* the child between fork and exec: setpgid, then tcsetpgrp unless background
ChildTty(ps, tty, p) == IF ~ps[p].bg THEN Tcsetpgrp(ps, tty, ps[p].pgid) ELSE tty

ChildExec(p) ==
  /\ procs[p].st = "forked"
  /\ tty_pgrp' = ChildTty(procs, tty_pgrp, p)
  /\ procs' = [procs EXCEPT ![p].st = "running"]
  /\ UNCHANGED <<pc, jobs, termios, last_status, waitJob, waitCtx, wstatus, out, obs>>
  /\ UNCHANGED <<varVars, evalVars>>

\* the program exits with code c, or is killed while running or stopped
ProcTerminate(p, c) ==
  /\ procs[p].st \in {"running", "stopped"}
  /\ procs' = [procs EXCEPT ![p].st = "zombie", ![p].code = c, ![p].reported = FALSE]
  /\ UNCHANGED <<pc, jobs, tty_pgrp, termios, last_status, waitJob, waitCtx, wstatus, out, obs>>
  /\ UNCHANGED <<varVars, evalVars>>

\* SIGTSTP from the terminal, SIGSTOP, or SIGTTIN/SIGTTOU in the background
ProcStop(p) ==
  /\ procs[p].st = "running"
  /\ procs' = [procs EXCEPT ![p].st = "stopped", ![p].reported = FALSE]
  /\ UNCHANGED <<pc, jobs, tty_pgrp, termios, last_status, waitJob, waitCtx, wstatus, out, obs>>
  /\ UNCHANGED <<varVars, evalVars>>

\* a foreground program changes the terminal modes (tcsetattr)
ProcSetTermios(p) ==
  /\ procs[p].st = "running"
  /\ tty_pgrp = procs[p].pgid
  /\ termios = "saved"
  /\ termios' = "changed"
  /\ UNCHANGED <<pc, jobs, procs, tty_pgrp, last_status, waitJob, waitCtx, wstatus, out, obs>>
  /\ UNCHANGED <<varVars, evalVars>>

----------------------------------------------------------------------------
(* The asynchronous reaper: check_background_jobs (jobs.c) *)

\* one pass of the loop body for the pid waitpid(-1, WNOHANG | WUNTRACED)
\* returned; r carries jobs, procs and the notices and transitions so far
ReapOne(r, p) ==
  LET s == find_job_by_pid(r.jobs, p)
      j == r.jobs[s]
      stopped == r.procs[p].st = "stopped"
      ps == IF stopped THEN [r.procs EXCEPT ![p].reported = TRUE]
            ELSE [r.procs EXCEPT ![p].st = "reaped", ![p].code = 0]
  IN IF s = -1 THEN [r EXCEPT !.procs = ps]
     ELSE IF stopped
     THEN [jobs  |-> [r.jobs EXCEPT ![s].running = FALSE, ![s].notified = TRUE],
           procs |-> ps,
           out   |-> IF ~j.notified THEN Append(r.out, <<"Stopped", j.job_id>>) ELSE r.out,
           obs   |-> IF j.running THEN Append(r.obs, <<"Stopped", j.job_id>>) ELSE r.obs]
     ELSE [jobs  |-> remove_job(r.jobs, j.job_id),
           procs |-> ps,
           out   |-> IF ~j.notified THEN Append(r.out, <<"Done", j.job_id>>) ELSE r.out,
           obs   |-> IF j.running THEN Append(r.obs, <<"Done", j.job_id>>) ELSE r.obs]

RECURSIVE ReapAll(_)
ReapAll(r) ==
  LET ready == {p \in Pids : Pending(r.procs, p)} IN
  IF ready = {} THEN r
  ELSE ReapAll(ReapOne(r, CHOOSE p \in ready : \A q \in ready : p <= q))

\* the top of the read-eval loop: reap, then block in readline
check_background_jobs ==
  /\ pc = "reap"
  /\ LET r == ReapAll([jobs |-> jobs, procs |-> procs, out |-> <<>>, obs |-> <<>>]) IN
     /\ jobs' = r.jobs
     /\ procs' = r.procs
     /\ out' = r.out
     /\ obs' = r.obs
  /\ pc' = "read"
  /\ UNCHANGED <<tty_pgrp, termios, last_status, waitJob, waitCtx, wstatus>>
  /\ UNCHANGED <<varVars, evalVars>>

----------------------------------------------------------------------------
(* Launching and resuming jobs (shell.c) *)

NoStatus == [ctx |-> "none", code |-> 0]

\* put_job_in_foreground up to its blocking wait: the tty goes to the job,
\* SIGCONT if cont, running = foreground = 1; the shell then blocks in waitpid
EnterForeground(jt, ps, s, cont, ctx) ==
  /\ tty_pgrp' = Tcsetpgrp(ps, tty_pgrp, jt[s].pgid)
  /\ procs' = IF cont THEN Sigcont(ps, jt[s].pgid) ELSE ps
  /\ jobs' = [jt EXCEPT ![s].running = TRUE, ![s].foreground = TRUE]
  /\ pc' = "wait"
  /\ waitJob' = s
  /\ waitCtx' = ctx

\* a put_job_in_background that also hands the terminal to the job
EnterBackgroundTty(jt, ps, s, cont) ==
  /\ procs' = IF cont THEN Sigcont(ps, jt[s].pgid) ELSE ps
  /\ jobs' = [jt EXCEPT ![s].running = TRUE, ![s].foreground = FALSE]
  /\ pc' = "reap"
  /\ tty_pgrp' = Tcsetpgrp(ps, tty_pgrp, jt[s].pgid)
  /\ UNCHANGED <<waitJob, waitCtx>>

\* put_job_in_background: SIGCONT if cont, running = 1, foreground = 0
EnterBackground(jt, ps, s, cont) ==
  /\ procs' = IF cont THEN Sigcont(ps, jt[s].pgid) ELSE ps
  /\ jobs' = [jt EXCEPT ![s].running = TRUE, ![s].foreground = FALSE]
  /\ pc' = "reap"
  /\ UNCHANGED <<tty_pgrp, waitJob, waitCtx>>

\* one job of n processes is forked and registered; n = 1 is execute_command,
\* n >= 2 is execute_pipeline.  With MaxProcs < MAX_JOBS add_job always finds
\* a slot.  The `[id] pid` line of a background launch reports no transition
\* and is not recorded in out.
Launch(n, bg) ==
  /\ pc = "read"
  /\ NextPid(procs) + n - 1 <= MaxProcs
  /\ HasFreeSlot(jobs)
  /\ LET first == NextPid(procs)
         ps == Fork(procs, first, n, bg)
         jt == add_job(jobs, first, first, bg)
         s  == alloc_job_slot(jobs)
     IN IF bg THEN EnterBackground(jt, ps, s, FALSE)
        ELSE EnterForeground(jt, ps, s, FALSE, IF n = 1 THEN "cmd" ELSE "pipe")
  /\ out' = <<>>
  /\ obs' = <<>>
  /\ wstatus' = NoStatus
  /\ UNCHANGED <<termios, last_status>>
  /\ UNCHANGED <<varVars, evalVars>>

execute_command(bg) == Launch(1, bg)

execute_pipeline(n, bg) == n >= 2 /\ Launch(n, bg)

\* the fg and bg builtins of execute_builtin, with continue_job and
\* mark_job_as_running; id is atoi(args[1])
continue_job(id, foreground) ==
  /\ pc = "read"
  /\ wstatus' = NoStatus
  /\ LET s == find_job_by_id(jobs, id) IN
     IF s = -1
     THEN /\ last_status' = 1
          /\ pc' = "reap"
          /\ out' = <<>>
          /\ obs' = <<>>
          /\ UNCHANGED <<jobs, procs, tty_pgrp, termios, waitJob, waitCtx>>
     ELSE LET jt == [jobs EXCEPT ![s].running = TRUE, ![s].notified = FALSE] IN
          /\ out' = <<<<"Cont", id>>>>
          /\ obs' = IF jobs[s].running THEN <<>> ELSE <<<<"Cont", id>>>>
          /\ IF foreground THEN EnterForeground(jt, procs, s, TRUE, "fg")
             ELSE EnterBackground(jt, procs, s, TRUE)
          /\ UNCHANGED <<termios, last_status>>
  /\ UNCHANGED <<varVars, evalVars>>

----------------------------------------------------------------------------
(* The foreground wait: wait_for_job and the return of its callers *)

\* wait_for_job has returned: put_job_in_foreground takes the terminal back
\* and restores shell_tmodes, then execute_command / execute_pipeline print
\* Stopped when job->running is 0 and otherwise remove the job; fg does nothing
ReturnFromWait(jt, ps, o, st) ==
  LET j == jt[waitJob] IN
  /\ procs' = ps
  /\ tty_pgrp' = Tcsetpgrp(ps, tty_pgrp, shell_pgid)
  /\ termios' = "saved"
  /\ obs' = o
  /\ wstatus' = st
  /\ IF waitCtx = "fg"
     THEN jobs' = jt /\ out' = <<>> /\ UNCHANGED last_status
     ELSE IF ~j.running
     THEN jobs' = jt /\ out' = <<<<"Stopped", j.job_id>>>> /\ UNCHANGED last_status
     ELSE /\ jobs' = remove_job(jt, j.job_id)
          /\ out' = <<>>
          /\ last_status' = IF waitCtx = "cmd" THEN 0 ELSE last_status
  /\ pc' = "reap"
  /\ waitJob' = -1
  /\ waitCtx' = "none"

wait_for_job ==
  /\ pc = "wait"
  /\ LET j == jobs[waitJob]
         members == {p \in Pids : procs[p].st \in Live /\ procs[p].pgid = j.pgid}
         ready == {p \in members : Pending(procs, p)}
         stop == [jobs EXCEPT ![waitJob].running = FALSE]
     IN \/ /\ members = {}
           \* waitpid fails with ECHILD: perror, return
           /\ ReturnFromWait(jobs, procs, <<>>, NoStatus)
        \/ \E p \in ready :
             IF procs[p].st = "stopped"
             THEN ReturnFromWait(stop, [procs EXCEPT ![p].reported = TRUE],
                                 <<<<"Stopped", j.job_id>>>>, NoStatus)
             ELSE LET ps == [procs EXCEPT ![p].st = "reaped", ![p].code = 0] IN
                  IF p = j.pid
                  THEN ReturnFromWait(stop, ps, <<<<"Done", j.job_id>>>>,
                                      [ctx |-> waitCtx, code |-> procs[p].code])
                  ELSE /\ procs' = ps
                       /\ UNCHANGED <<pc, jobs, tty_pgrp, termios, last_status,
                                      waitJob, waitCtx, wstatus, out, obs>>
  /\ UNCHANGED <<varVars, evalVars>>

----------------------------------------------------------------------------
(* The interactive shell *)

\* atoi(args[1]) of the fg and bg builtins: a negative number, 0 (which is
\* also what atoi makes of non-numeric text), the ids in use and an unused one
JobIds == (-1)..(MaxProcs + 1)

\* jobs_init and terminal_init have run: the shell owns the terminal and
\* shell_tmodes holds the modes it found
InitJobs ==
  /\ pc = "reap"
  /\ jobs = jobs_init
  /\ procs = [p \in Pids |-> NoProc]
  /\ tty_pgrp = shell_pgid
  /\ termios = "saved"
  /\ last_status = 0
  /\ waitJob = -1
  /\ waitCtx = "none"
  /\ wstatus = NoStatus
  /\ out = <<>>
  /\ obs = <<>>

IdleVars == vars = <<>> /\ env = <<>>

\* no script is being read and no argv is being built
IdleStream ==
  /\ lines = <<>>
  /\ lineno = 0
  /\ loop_control_flag = 0
  /\ exit_code = -1
  /\ diag = <<>>

IdleWords == cmdline = <<>> /\ args = <<>> /\ wpc = "line"

\* nothing is being launched
NoLaunch == [at |-> "none"]

\* no alias is defined, the shell is in the root directory
NoIo == [at |-> "none"]

IdleShell ==
  /\ aliases = <<>> /\ alias_depth = 0 /\ cwd = <<"/">>
  /\ launch = NoLaunch /\ io = NoIo /\ typed = <<>>

IdleEval ==
  /\ line = <<>> /\ trace = <<>> /\ loops = 0 /\ epc = "done"
  /\ IdleStream /\ IdleWords /\ IdleShell

Init == InitJobs /\ IdleVars /\ IdleEval

Children ==
  \/ \E p \in Pids : ChildExec(p)
  \/ \E p \in Pids, c \in ExitCodes : ProcTerminate(p, c)
  \/ \E p \in Pids : ProcStop(p)
  \/ \E p \in Pids : ProcSetTermios(p)

Next ==
  \/ check_background_jobs
  \/ \E bg \in BOOLEAN : execute_command(bg)
  \/ \E n \in 2..MaxStages, bg \in BOOLEAN : execute_pipeline(n, bg)
  \/ \E id \in JobIds, foreground \in BOOLEAN : continue_job(id, foreground)
  \/ wait_for_job
  \/ Children

Spec == Init /\ [][Next]_sv

\* runs in which every job is launched with a trailing `&`
NextBg ==
  \/ check_background_jobs
  \/ execute_command(TRUE)
  \/ \E n \in 2..MaxStages : execute_pipeline(n, TRUE)
  \/ \E id \in JobIds, foreground \in BOOLEAN : continue_job(id, foreground)
  \/ wait_for_job
  \/ Children

SpecBg == Init /\ [][NextBg]_sv

----------------------------------------------------------------------------
(* Job control and terminal ownership: the properties *)

Occupied(s) == jobs[s].pid # -1

\* C1: whenever the shell is not inside a foreground wait (no foreground job
\* was launched yet, or put_job_in_foreground has returned), the terminal's
\* foreground process group is the shell's and the saved termios is in force.
C1_TerminalBackAfterForeground ==
  pc # "wait" => tty_pgrp = shell_pgid /\ termios = "saved"

\* C2: when the read-eval loop is about to read input, no job whose leader
\* has terminated and been reaped is left in the job table.
C2_TerminatedJobRemoved ==
  pc = "read" => \A s \in Slots : Occupied(s) => procs[jobs[s].pid].st # "reaped"

\* C3: in every step of the shell the notices printed are exactly the job
\* transitions observed in that step, one notice for each.
C3_OneNoticePerTransition == out = obs

\* C4: after a foreground single command has finished, last_status equals
\* the exit status the foreground wait collected.
C4_LastStatusIsExitStatus == wstatus.ctx = "cmd" => last_status = wstatus.code

\* C7: at most one entry of the job table has its foreground flag set.
C7_OneForegroundJob ==
  Cardinality({s \in Slots : Occupied(s) /\ jobs[s].foreground}) <= 1

\* C8: in a reaper step a job leaves the table if and only if the step
\* printed its Done notice.
C8_ReaperDoneAtomic ==
  [][(pc = "reap" /\ pc' = "read") =>
       \A s \in Slots :
         (Occupied(s) /\ jobs'[s].pid = -1)
           <=> (\E k \in 1..Len(out') : out'[k] = <<"Done", s + 1>>)]_sv

\* C9: when every job was started in the background, the shell owns the
\* terminal whenever the read-eval loop is about to read input.
C9_BackgroundNeverOwnsTty == pc = "read" => tty_pgrp = shell_pgid

\* a background pipeline with both stages past exec while the shell reads input
C9_Witness ==
  /\ pc = "read"
  /\ \E s \in Slots :
       /\ Occupied(s) /\ jobs[s].running /\ ~jobs[s].foreground
       /\ \E p, q \in Pids :
            /\ p # q
            /\ procs[p].pgid = jobs[s].pgid /\ procs[q].pgid = jobs[s].pgid
            /\ procs[p].st = "running" /\ procs[q].st = "running"
            /\ procs[p].bg /\ procs[q].bg

\* C11: a step of `fg ID` or `bg ID` whose ID names no occupied slot of the
\* job table sets last_status to 1 (the `no such job` path) and changes no
\* slot of the job table, no process and not the terminal's foreground group.
C11_NoSuchJobIsError ==
  [][\A id \in JobIds, foreground \in BOOLEAN :
       (/\ continue_job(id, foreground)
        /\ ~\E s \in Slots : Occupied(s) /\ jobs[s].job_id = id)
         => /\ last_status' = 1
            /\ jobs' = jobs
            /\ procs' = procs
            /\ tty_pgrp' = tty_pgrp]_sv

----------------------------------------------------------------------------
(* The variable store and the environment (vars.c, builtins.c) *)

\* names and values are C strings: sequences of characters
Names == {<<"X">>, <<"Y">>, <<"Z">>}

Values == {<<"1">>, <<"2">>}

\* no slot of vars[] holds the name; getenv returns NULL
Undef == <<"undef">>

\* set_var: the slot found by find_var, or the first empty one, takes the value
set_var(vt, name, value) ==
  [n \in DOMAIN vt \cup {name} |-> IF n = name THEN value ELSE vt[n]]

\* get_var: the value, or NULL
get_var(vt, name) == IF name \in DOMAIN vt THEN vt[name] ELSE Undef

\* setenv(name, value, 1)
setenv(e, name, value) == [e EXCEPT ![name] = value]

\* parse_and_execute on NAME=VALUE: set_var only
Assign(n, v) ==
  /\ vars' = set_var(vars, n, v)
  /\ UNCHANGED env
  /\ UNCHANGED <<jobVars, evalVars>>

\* export NAME=VALUE: set_var, then setenv
ExportAssign(n, v) ==
  /\ vars' = set_var(vars, n, v)
  /\ env' = setenv(env, n, v)
  /\ last_status' = 0
  /\ UNCHANGED <<pc, jobs, procs, tty_pgrp, termios, waitJob, waitCtx, wstatus, out, obs>>
  /\ UNCHANGED evalVars

\* export NAME: export_var copies the stored value, and fails on an undefined
\* name; the builtin ends with last_status = 0 either way
ExportName(n) ==
  /\ env' = IF get_var(vars, n) = Undef THEN env ELSE setenv(env, n, get_var(vars, n))
  /\ last_status' = 0
  /\ UNCHANGED vars
  /\ UNCHANGED <<pc, jobs, procs, tty_pgrp, termios, waitJob, waitCtx, wstatus, out, obs>>
  /\ UNCHANGED evalVars

\* the store is empty and the inherited environment holds none of Names
InitVars ==
  /\ vars = [n \in Names |-> Undef]
  /\ env = [n \in Names |-> Undef]

NextVars ==
  \/ \E n \in Names, v \in Values : Assign(n, v)
  \/ \E n \in Names, v \in Values : ExportAssign(n, v)
  \/ \E n \in Names : ExportName(n)

InitV == InitJobs /\ InitVars /\ IdleEval

SpecVars == InitV /\ [][NextVars]_sv

\* C10: every exported name (the names export has put in the environment)
\* has the same value in the environment as in the variable store.
C10_ExportedInSync == \A n \in Names : env[n] # Undef => env[n] = vars[n]

----------------------------------------------------------------------------
(* The evaluator on `&&`, `||`, if and while, run by parse_stream in -c or
   script mode (shell_is_interactive = 0), where execute_command waits for
   its child with waitpid(pid, &status, 0) *)

\* the passes of a while loop the model follows
MaxLoops == 2

\* a simple command is an external program known by its name and by the exit
\* code it ends with; a line is a sequence of commands separated by operators
Cmd(id, c) == [t |-> "cmd", id |-> id, code |-> c]

Op(o) == [t |-> o, id |-> o, code |-> 0]

\* find_logic_op: the position of the first `&&` or `||`, 0 when there is none
find_logic_op(s) ==
  IF \E k \in 1..Len(s) : s[k].t \in {"&&", "||"}
  THEN CHOOSE k \in 1..Len(s) : s[k].t \in {"&&", "||"} /\ \A m \in 1..(k - 1) : s[m].t \notin {"&&", "||"}
  ELSE 0

\* execute_command, non-interactive: last_status = status ? 1 : 0, return 0;
\* parse_and_execute ignores what it returns and itself returns 0
RunSimple(c, st) ==
  [rc |-> 0,
   last_status |-> IF c.code # 0 THEN 1 ELSE 0,
   trace |-> Append(st.trace, c.id)]

\* parse_and_execute(input): st carries last_status and the commands run
RECURSIVE parse_and_execute(_, _)
parse_and_execute(input, st) ==
  IF Len(input) = 0 THEN [rc |-> 0, last_status |-> st.last_status, trace |-> st.trace]
  ELSE LET k == find_logic_op(input) IN
       IF k # 0
       THEN LET is_and == input[k].t = "&&"
                left == SubSeq(input, 1, k - 1)
                right == SubSeq(input, k + 1, Len(input))
                l == parse_and_execute(left, st)
                t == IF (is_and /\ l.rc = 0) \/ (~is_and /\ l.rc # 0)
                     THEN parse_and_execute(right, l)
                     ELSE l
            IN [rc |-> t.rc, last_status |-> t.rc, trace |-> t.trace]
       ELSE RunSimple(input[1], st)

\* eval_command: rc == 0
eval_command(cmd, st) ==
  LET r == parse_and_execute(cmd, st) IN [true |-> r.rc = 0, st |-> r]

\* exec_block on a body of one line
exec_block(body, st) == parse_and_execute(body, st)

Here == [last_status |-> last_status, trace |-> trace]

Finish(r, next) ==
  /\ last_status' = r.last_status
  /\ trace' = r.trace
  /\ epc' = next
  /\ UNCHANGED line
  /\ UNCHANGED <<pc, jobs, procs, tty_pgrp, termios, waitJob, waitCtx, wstatus, out, obs>>
  /\ UNCHANGED varVars
  /\ UNCHANGED <<streamVars, wordVars, shellVars>>

\* parse_stream, a plain line
EvalLine ==
  /\ epc = "start"
  /\ line.kind = "logic"
  /\ loops' = loops
  /\ Finish(parse_and_execute(line.cond, Here), "done")

\* parse_stream, if COND; then BODY else ALT fi
EvalIf ==
  /\ epc = "start"
  /\ line.kind = "if"
  /\ loops' = loops
  /\ LET c == eval_command(line.cond, Here) IN
     IF c.true THEN Finish(exec_block(line.body, c.st), "done")
     ELSE Finish(exec_block(line.alt, c.st), "done")

\* parse_stream, while COND; do BODY done: one evaluation of the condition
\* and, when it is true, one pass of the body
EvalWhile ==
  /\ epc \in {"start", "loop"}
  /\ line.kind = "while"
  /\ loops < MaxLoops
  /\ LET c == eval_command(line.cond, Here) IN
     IF c.true
     THEN loops' = loops + 1 /\ Finish(exec_block(line.body, c.st), "loop")
     ELSE loops' = loops /\ Finish(c.st, "done")

Codes == {0, 1, 3}

Ops == {"&&", "||"}

Statement(kind, cond, body, alt) == [kind |-> kind, cond |-> cond, body |-> body, alt |-> alt]

EvalInputs ==
  {Statement("logic", <<Cmd("A", a), Op(o), Cmd("B", b)>>, <<>>, <<>>) :
     a \in Codes, b \in Codes, o \in Ops}
  \cup {Statement("logic", <<Cmd("A", a), Op(u[1]), Cmd("B", b), Op(u[2]), Cmd("C", c)>>, <<>>, <<>>) :
     a \in Codes, b \in Codes, c \in Codes, u \in Ops \X Ops}
  \cup {Statement("if", <<Cmd("COND", c)>>, <<Cmd("A", 0)>>, <<Cmd("B", 0)>>) : c \in Codes}
  \cup {Statement("while", <<Cmd("COND", c)>>, <<Cmd("BODY", 0)>>, <<>>) : c \in Codes}

InitEval ==
  /\ line \in EvalInputs
  /\ trace = <<>>
  /\ loops = 0
  /\ epc = "start"

InitE == InitJobs /\ IdleVars /\ InitEval /\ IdleStream /\ IdleWords /\ IdleShell

NextEval == EvalLine \/ EvalIf \/ EvalWhile

SpecEval == InitE /\ [][NextEval]_sv

Ran(id) == \E k \in 1..Len(trace) : trace[k] = id

\* C5: if runs its then-part exactly when the condition's exit status is 0
\* and its else-part exactly when it is nonzero; a while loop whose condition
\* exits nonzero on its first evaluation runs its body zero times.
C5_ConditionIsExitStatus ==
  /\ (line.kind = "if" /\ epc = "done") =>
        /\ Ran("A") <=> line.cond[1].code = 0
        /\ Ran("B") <=> line.cond[1].code # 0
  /\ (line.kind = "while" /\ line.cond[1].code # 0) => loops = 0 /\ ~Ran("BODY")

\* the commands a chain runs when it groups left to right and each operator
\* looks at the exit status of what stands on its left
RECURSIVE Chain(_, _, _)
Chain(s, status, ran) ==
  IF Len(s) < 2 THEN [status |-> status, ran |-> ran]
  ELSE LET go == IF s[1].t = "&&" THEN status = 0 ELSE status # 0 IN
       Chain(SubSeq(s, 3, Len(s)),
             IF go THEN s[2].code ELSE status,
             IF go THEN Append(ran, s[2].id) ELSE ran)

\* C6: `A && B` runs B iff A exits 0, `A || B` runs B iff A exits nonzero, a
\* longer chain groups left to right, and last_status is afterwards the
\* status of the last command run.
C6_ShortCircuit ==
  (line.kind = "logic" /\ epc = "done") =>
     LET want == Chain(Tail(line.cond), line.cond[1].code, <<line.cond[1].id>>) IN
     /\ trace = want.ran
     /\ (last_status = 0) <=> (want.status = 0)

----------------------------------------------------------------------------
(* C strings: a string is the sequence of its characters, each character a
   string of length one; positions count from 1 and 0 stands for NULL *)

Digits == <<"0", "1", "2", "3", "4", "5", "6", "7", "8", "9">>

isdigit(c) == \E d \in 1..10 : Digits[d] = c

\* the letters that occur in the modelled command lines
Letters == {"a", "b", "c", "d", "e", "f", "g", "h", "i", "k", "l", "m", "n",
            "o", "p", "q", "r", "s", "t", "u", "w", "x", "y", "A", "B", "C",
            "D", "I", "V", "X", "Y"}

isalnum(c) == isdigit(c) \/ c \in Letters

isspace(c) == c \in {" ", "\t"}

\* the characters of s from position k on
From(s, k) == SubSeq(s, k, Len(s))

\* strncmp(s, prefix, strlen(prefix)) == 0
HasPrefix(s, prefix) ==
  Len(s) >= Len(prefix) /\ SubSeq(s, 1, Len(prefix)) = prefix

\* strstr(s + from - 1, needle): the first position at or after from where
\* needle occurs in s
strstr_from(s, needle, from) ==
  LET hits == {k \in from..(Len(s) - Len(needle) + 1) : SubSeq(s, k, k + Len(needle) - 1) = needle}
  IN IF hits = {} THEN 0 ELSE CHOOSE k \in hits : \A m \in hits : k <= m

strstr(s, needle) == strstr_from(s, needle, 1)

strchr(s, c) == strstr(s, <<c>>)

\* trim: leading and trailing blanks removed
RECURSIVE trim(_)
trim(s) ==
  IF Len(s) = 0 THEN s
  ELSE IF isspace(s[1]) THEN trim(Tail(s))
  ELSE IF isspace(s[Len(s)]) THEN trim(SubSeq(s, 1, Len(s) - 1))
  ELSE s

\* the strtok_r loop over s with the delimiters " \t": the words of s
RECURSIVE strtok_words(_, _, _)
strtok_words(s, word, acc) ==
  IF Len(s) = 0 THEN (IF Len(word) > 0 THEN Append(acc, word) ELSE acc)
  ELSE IF isspace(s[1])
  THEN strtok_words(Tail(s), <<>>, IF Len(word) > 0 THEN Append(acc, word) ELSE acc)
  ELSE strtok_words(Tail(s), Append(word, s[1]), acc)

\* strcat of the strings of a sequence, sep between neighbours
RECURSIVE Join(_, _)
Join(ws, sep) ==
  IF Len(ws) = 0 THEN <<>>
  ELSE IF Len(ws) = 1 THEN ws[1]
  ELSE ws[1] \o sep \o Join(Tail(ws), sep)

----------------------------------------------------------------------------
(* split_command_line (tokenizer.c) *)

\* a tokenizer that knows no quotes: the words between blanks
split_on_blanks(s) == strtok_words(s, <<>>, <<>>)

\* the loop of split_command_line from position p on: state is NORMAL,
\* IN_SQUOTE or IN_DQUOTE, token[0..tpos) is token, args[0..count) is acc.
\* A backslash that ends the line makes the loop read past the terminator;
\* the modelled lines never end in a backslash.
RECURSIVE split_loop(_, _, _, _, _)
split_loop(s, p, state, token, acc) ==
  IF p > Len(s) THEN (IF Len(token) > 0 THEN Append(acc, token) ELSE acc)
  ELSE LET c == s[p] IN
    IF state = "NORMAL"
    THEN IF c = " " \/ c = "\t"
         THEN split_loop(s, p + 1, state, <<>>,
                         IF Len(token) > 0 THEN Append(acc, token) ELSE acc)
         ELSE IF c = "'" THEN split_loop(s, p + 1, "IN_SQUOTE", token, acc)
         ELSE IF c = "\"" THEN split_loop(s, p + 1, "IN_DQUOTE", token, acc)
         ELSE IF c = "\\"
         THEN split_loop(s, p + 2, state,
                         IF p + 1 <= Len(s) THEN Append(token, s[p + 1]) ELSE token, acc)
         ELSE split_loop(s, p + 1, state, Append(token, c), acc)
    ELSE IF state = "IN_SQUOTE"
    THEN IF c = "'" THEN split_loop(s, p + 1, "NORMAL", token, acc)
         ELSE split_loop(s, p + 1, state, Append(token, c), acc)
    ELSE IF c = "\"" THEN split_loop(s, p + 1, "NORMAL", token, acc)
         ELSE IF c = "\\" /\ p + 1 <= Len(s) /\ s[p + 1] \in {"\"", "\\"}
         THEN split_loop(s, p + 2, state, Append(token, s[p + 1]), acc)
         ELSE split_loop(s, p + 1, state, Append(token, c), acc)

split_command_line(s) == split_loop(s, 1, "NORMAL", <<>>, <<>>)

----------------------------------------------------------------------------
(* Arithmetic: eval_arith and expand_arith_subst (arith.c).  The parser's
   globals p and ok_flag travel in a record [v, p, ok] with the value.  The
   modelled expressions are small, far from the overflow of long. *)

\* C division and remainder of long: the quotient truncates toward zero
CDiv(a, b) ==
  LET q == (IF a < 0 THEN -a ELSE a) \div (IF b < 0 THEN -b ELSE b)
  IN IF (a < 0) # (b < 0) THEN -q ELSE q

CRem(a, b) == a - b * CDiv(a, b)

DigitValue(c) == (CHOOSE d \in 1..10 : Digits[d] = c) - 1

RECURSIVE skip_ws(_, _)
skip_ws(s, p) == IF p <= Len(s) /\ isspace(s[p]) THEN skip_ws(s, p + 1) ELSE p

\* the digit loop of parse_number and of atol
RECURSIVE digits_from(_, _, _)
digits_from(s, p, val) ==
  IF p <= Len(s) /\ isdigit(s[p]) THEN digits_from(s, p + 1, val * 10 + DigitValue(s[p]))
  ELSE [v |-> val, p |-> p]

\* atol: blanks, an optional sign, then digits up to the first other character
atol(s) ==
  LET p0 == skip_ws(s, 1)
      neg == p0 <= Len(s) /\ s[p0] = "-"
      p1 == IF p0 <= Len(s) /\ s[p0] \in {"-", "+"} THEN p0 + 1 ELSE p0
      d == digits_from(s, p1, 0)
  IN IF neg THEN -d.v ELSE d.v

\* snprintf(num, "%ld", val)
RECURSIVE DecimalDigits(_)
DecimalDigits(n) ==
  IF n < 10 THEN <<Digits[n + 1]>>
  ELSE Append(DecimalDigits(n \div 10), Digits[(n % 10) + 1])

ToDecimal(n) == IF n < 0 THEN <<"-">> \o DecimalDigits(-n) ELSE DecimalDigits(n)

parse_number(s, p, ok) ==
  LET p0 == skip_ws(s, p)
      neg == p0 <= Len(s) /\ s[p0] = "-"
      p1 == IF neg THEN p0 + 1 ELSE p0
      d == digits_from(s, p1, 0)
  IN IF ~(p1 <= Len(s) /\ isdigit(s[p1])) THEN [v |-> 0, p |-> p1, ok |-> FALSE]
     ELSE [v |-> IF neg THEN -d.v ELSE d.v, p |-> d.p, ok |-> ok]

RECURSIVE name_end(_, _)
name_end(s, p) ==
  IF p <= Len(s) /\ (isalnum(s[p]) \/ s[p] = "_") THEN name_end(s, p + 1) ELSE p

parse_var(vt, s, p, ok) ==
  LET p0 == skip_ws(s, p)
      e == name_end(s, p0)
      v == get_var(vt, SubSeq(s, p0, e - 1))
  IN IF v = Undef THEN [v |-> 0, p |-> e, ok |-> FALSE]
     ELSE [v |-> atol(v), p |-> e, ok |-> ok]

RECURSIVE parse_expr(_, _, _, _)
RECURSIVE parse_factor(_, _, _, _)
RECURSIVE term_loop(_, _, _)
RECURSIVE expr_loop(_, _, _)

\* parse_factor after the parse_expr of a parenthesis returned r
close_factor(s, r, p1) ==
  IF ~(p1 <= Len(s) /\ s[p1] = ")") THEN [v |-> 0, p |-> p1, ok |-> FALSE]
  ELSE [v |-> r.v, p |-> p1 + 1, ok |-> r.ok]

parse_factor(vt, s, p, ok) ==
  LET p0 == skip_ws(s, p) IN
  IF p0 <= Len(s) /\ s[p0] = "("
  THEN LET r == parse_expr(vt, s, p0 + 1, ok) IN close_factor(s, r, skip_ws(s, r.p))
  ELSE IF p0 <= Len(s) /\ (isdigit(s[p0]) \/ (s[p0] = "-" /\ p0 + 1 <= Len(s) /\ isdigit(s[p0 + 1])))
  THEN parse_number(s, p0, ok)
  ELSE parse_var(vt, s, p0, ok)

\* one pass of the while (1) of parse_term: v so far, the operator, and the
\* factor f parsed after it; a zero divisor returns at once
term_step(vt, s, v, op, f) ==
  IF op = "*" THEN term_loop(vt, s, [v |-> v * f.v, p |-> f.p, ok |-> f.ok])
  ELSE IF f.v = 0 THEN [v |-> 0, p |-> f.p, ok |-> FALSE]
  ELSE term_loop(vt, s, [v |-> IF op = "/" THEN CDiv(v, f.v) ELSE CRem(v, f.v),
                         p |-> f.p, ok |-> f.ok])

\* the while (1) of parse_term: r is the value so far with p and ok_flag
term_loop(vt, s, r) ==
  LET p0 == skip_ws(s, r.p) IN
  IF p0 <= Len(s) /\ s[p0] \in {"*", "/", "%"}
  THEN term_step(vt, s, r.v, s[p0], parse_factor(vt, s, p0 + 1, r.ok))
  ELSE [v |-> r.v, p |-> p0, ok |-> r.ok]

parse_term(vt, s, p, ok) == term_loop(vt, s, parse_factor(vt, s, p, ok))

\* one pass of the while (1) of parse_expr
expr_step(vt, s, v, op, t) ==
  expr_loop(vt, s, [v |-> IF op = "+" THEN v + t.v ELSE v - t.v, p |-> t.p, ok |-> t.ok])

\* the while (1) of parse_expr
expr_loop(vt, s, r) ==
  LET p0 == skip_ws(s, r.p) IN
  IF p0 <= Len(s) /\ s[p0] \in {"+", "-"}
  THEN expr_step(vt, s, r.v, s[p0], parse_term(vt, s, p0 + 1, r.ok))
  ELSE [v |-> r.v, p |-> p0, ok |-> r.ok]

parse_expr(vt, s, p, ok) == expr_loop(vt, s, parse_term(vt, s, p, ok))

\* eval_arith after parse_expr returned r: the value and *ok
end_of_expr(expr, r) == [v |-> r.v, ok |-> r.ok /\ skip_ws(expr, r.p) > Len(expr)]

eval_arith(vt, expr) == end_of_expr(expr, parse_expr(vt, expr, 1, TRUE))

\* a function that returns a string or NULL returns [null, s]
Null == [null |-> TRUE, s |-> <<>>]

Some(s) == [null |-> FALSE, s |-> s]

\* sizeof(expr) of expand_arith_subst
ExprSize == 256

\* expand_arith_subst once eval_arith has returned r for the text between
\* start + 3 and end
arith_result(arg, start, end, r) ==
  IF ~r.ok THEN Null
  ELSE Some(SubSeq(arg, 1, start - 1) \o ToDecimal(r.v) \o From(arg, end + 2))

arith_between(vt, arg, start, end) ==
  IF end = 0 THEN Null
  ELSE IF end - (start + 3) >= ExprSize THEN Null
  ELSE arith_result(arg, start, end, eval_arith(vt, SubSeq(arg, start + 3, end - 1)))

arith_from(vt, arg, start) ==
  IF start = 0 THEN Null
  ELSE arith_between(vt, arg, start, strstr_from(arg, <<")", ")">>, start + 3))

\* expand_arith_subst: the first $(( expr )) of arg replaced by its value
expand_arith_subst(vt, arg) == arith_from(vt, arg, strstr(arg, <<"$", "(", "(">>))

----------------------------------------------------------------------------
(* expand_cmd_subst and expand_vars (vars.c) *)

\* the scan of expand_cmd_subst for the parenthesis that closes `$(`: the
\* position where depth reaches 0, or Len(s) + 1 at the end of the string
RECURSIVE close_paren(_, _, _)
close_paren(s, end, depth) ==
  IF end > Len(s) THEN [end |-> end, depth |-> depth]
  ELSE LET d == IF s[end] = "(" THEN depth + 1
                ELSE IF s[end] = ")" THEN depth - 1 ELSE depth
       IN IF d > 0 THEN close_paren(s, end + 1, d) ELSE [end |-> end, depth |-> d]

\* the `$(command)` loop: every `$(` with its closing parenthesis is replaced
\* by cmd_output, what capture_command_output read from the child that ran
\* parse_and_execute(command)
RECURSIVE subst_parens(_, _)
subst_parens(result, cmd_output) ==
  LET start == strstr(result, <<"$", "(">>)
      c == close_paren(result, start + 2, 1)
  IN IF start = 0 THEN Some(result)
     ELSE IF c.depth # 0 \/ c.end > Len(result) THEN Null
     ELSE subst_parens(SubSeq(result, 1, start - 1) \o cmd_output \o From(result, c.end + 1),
                       cmd_output)

\* the grave accent, the one character the model does not spell as itself
Backtick == "BQ"

\* the loop for a command between two grave accents
RECURSIVE subst_backticks(_, _)
subst_backticks(result, cmd_output) ==
  LET start == strchr(result, Backtick)
      end == strstr_from(result, <<Backtick>>, start + 1)
  IN IF start = 0 THEN Some(result)
     ELSE IF end = 0 THEN Null
     ELSE subst_backticks(SubSeq(result, 1, start - 1) \o cmd_output \o From(result, end + 1),
                          cmd_output)

expand_cmd_subst(arg, cmd_output) ==
  IF strstr(arg, <<"$", "(">>) = 0 /\ strchr(arg, Backtick) = 0 THEN Null
  ELSE LET r == subst_parens(arg, cmd_output) IN
       IF r.null THEN Null ELSE subst_backticks(r.s, cmd_output)

\* the loop of expand_vars never ends
Hang == <<"hang">>

RECURSIVE expand_embedded(_, _)

\* the next pass of the loop works on the word with the value in place of
\* the reference; when that is the word it started from, every pass is the
\* same and the loop never ends
embedded_again(vt, result, replaced) ==
  IF replaced = result THEN Hang ELSE expand_embedded(vt, replaced)

\* the loop over the `$` of a word that does not start with `$`: the name is
\* the run of letters, digits and `_` after the `$`; a `$` with no name makes
\* the loop find the same `$` again, for ever
expand_embedded(vt, result) ==
  LET dollar == strchr(result, "$")
      end == name_end(result, dollar + 1)
      value == get_var(vt, SubSeq(result, dollar + 1, end - 1))
  IN IF dollar = 0 THEN result
     ELSE IF dollar + 1 <= Len(result) /\ result[dollar + 1] = "(" THEN result
     ELSE IF end = dollar + 1 THEN Hang
     ELSE embedded_again(vt, result, SubSeq(result, 1, dollar - 1)
                                       \o (IF value = Undef THEN <<>> ELSE value)
                                       \o From(result, end))

\* the variable step of expand_vars on one word
expand_dollar(vt, arg) ==
  IF strchr(arg, "$") # 0 /\ arg[1] # "$" THEN expand_embedded(vt, arg)
  ELSE IF Len(arg) >= 1 /\ arg[1] = "$" /\ ~(Len(arg) >= 2 /\ arg[2] = "(")
  THEN LET val == get_var(vt, Tail(arg)) IN IF val = Undef THEN <<>> ELSE val
  ELSE arg

\* args[i] = r unless r is NULL
OrKeep(r, arg) == IF r.null THEN arg ELSE r.s

\* the arithmetic step and the variable step on one word
expand_arith_dollar(vt, arg) == expand_dollar(vt, OrKeep(expand_arith_subst(vt, arg), arg))

\* the body of the loop of expand_vars for one args[i]
expand_word(vt, arg, cmd_output) ==
  expand_arith_dollar(vt, OrKeep(expand_cmd_subst(arg, cmd_output), arg))

expand_vars(vt, argv, cmd_output) ==
  [k \in 1..Len(argv) |-> expand_word(vt, argv[k], cmd_output)]

----------------------------------------------------------------------------
(* The argv of one simple command: parse_and_execute from split_command_line
   to expand_vars, on three families of command lines *)

\* the most words on a line of quoted and unquoted pieces
MaxWords == 2

echo == <<"e", "c", "h", "o">>

\* a piece of a word: text written bare, in single or in double quotes
Piece(q, text) == [q |-> q, text |-> text]

\* bare pieces hold no blank, quote or backslash; quoted ones are non-empty
\* with no quote and no backslash
Pieces ==
  {Piece("none", t) : t \in {<<"a">>, <<"V", "=">>}}
  \cup {Piece(q, t) : q \in {"single", "double"}, t \in {<<"a", " ", "b">>, <<"\t">>}}

\* a word is one piece, or two pieces with no blank between them of which one
\* at least is quoted
QuoteWords ==
  {<<x>> : x \in Pieces}
  \cup {<<x, y>> : x \in {z \in Pieces : z.q # "none"}, y \in Pieces}
  \cup {<<x, y>> : x \in Pieces, y \in {z \in Pieces : z.q # "none"}}

QuoteLines == UNION {[1..n -> QuoteWords] : n \in 1..MaxWords}

SpellPiece(x) ==
  IF x.q = "single" THEN <<"'">> \o x.text \o <<"'">>
  ELSE IF x.q = "double" THEN <<"\"">> \o x.text \o <<"\"">>
  ELSE x.text

SpellWord(w) == Join([k \in 1..Len(w) |-> SpellPiece(w[k])], <<>>)

\* the words of a line are written with one blank between them
SpellLine(ws) == Join([k \in 1..Len(ws) |-> SpellWord(ws[k])], <<" ">>)

\* a word with one variable reference: pre$NAMEsuf
VarPrefixes == {<<>>, <<"p">>, <<"a", "/">>}

VarRefNames == {<<"X">>, <<"D">>, <<"Y">>}

\* what follows the name starts with a character that no name holds
VarSuffixes == {<<>>, <<"/", "f">>, <<".", "c">>}

VarRef(pre, name, suf) == [pre |-> pre, name |-> name, suf |-> suf]

VarRefs == {VarRef(a, n, b) : a \in VarPrefixes, n \in VarRefNames, b \in VarSuffixes}

SpellVarRef(r) == r.pre \o <<"$">> \o r.name \o r.suf

\* an arithmetic expression: a number, a variable, or two expressions joined
\* by an operator
Leaf(text) == [op |-> "leaf", text |-> text, l |-> <<>>, r |-> <<>>]

Bin(op, l, r) == [op |-> op, text |-> <<>>, l |-> l, r |-> r]

ArithOps == {"+", "-", "*", "/", "%"}

Leaves == {Leaf(<<"0">>), Leaf(<<"3">>), Leaf(<<"1", "0">>), Leaf(<<"X">>)}

Pairs == {Bin(o, a, b) : o \in ArithOps, a \in Leaves, b \in Leaves}

SomePairs == {Bin(o, a, b) : o \in {"+", "*", "/"}, a \in {Leaf(<<"3">>), Leaf(<<"X">>)},
                             b \in {Leaf(<<"0">>), Leaf(<<"1", "0">>)}}

Exprs ==
  Leaves \cup Pairs
  \cup {Bin(o, a, b) : o \in ArithOps, a \in SomePairs, b \in Leaves}
  \cup {Bin(o, a, b) : o \in ArithOps, a \in Leaves, b \in SomePairs}

Multiplicative(op) == op \in {"*", "/", "%"}

\* the expression in infix notation with the parentheses that its grouping
\* needs and no others; sp is written around every operator
RECURSIVE SpellExpr(_, _)
SpellExpr(e, sp) ==
  IF e.op = "leaf" THEN e.text
  ELSE LET left == IF e.l.op # "leaf" /\ Multiplicative(e.op) /\ ~Multiplicative(e.l.op)
                   THEN <<"(">> \o SpellExpr(e.l, sp) \o <<")">>
                   ELSE SpellExpr(e.l, sp)
           right == IF e.r.op # "leaf" /\ (Multiplicative(e.op) \/ ~Multiplicative(e.r.op))
                    THEN <<"(">> \o SpellExpr(e.r, sp) \o <<")">>
                    ELSE SpellExpr(e.r, sp)
       IN left \o sp \o <<e.op>> \o sp \o right

SpellArith(e, sp) == <<"$", "(", "(">> \o SpellExpr(e, sp) \o <<")", ")">>

\* the variables of the shell when the command line is read
WordVars ==
  (<<"X">> :> <<"4">>) @@ (<<"D">> :> <<"/", "d">>)
  @@ (<<"V">> :> <<"$", "X">>) @@ (<<"R">> :> <<"$", "R">>)

\* what a command substitution can read from its child: nothing when the
\* command is not found, or whatever a program of that name prints
CmdOutputs == {<<>>, <<"o", "k">>}

CommandLine(kind, src, text) == [kind |-> kind, src |-> src, text |-> text]

WordInputs ==
  {CommandLine("quote", ws, SpellLine(ws)) : ws \in QuoteLines}
  \cup {CommandLine("var", r, echo \o <<" ">> \o SpellVarRef(r)) : r \in VarRefs}
  \cup {CommandLine("arith", e, echo \o <<" ">> \o SpellArith(e, sp)) :
          e \in Exprs, sp \in {<<>>, <<" ">>}}
  \cup {CommandLine("dollar", w, echo \o <<" ">> \o w) :
          w \in {<<"a", "$">>, <<"c", "o", "s", "t", "$", "-", "5">>, <<"a", "$", "V">>,
                 <<"a", "$", "R">>, <<"a", "$", "X">>}}

InitWords ==
  /\ cmdline \in WordInputs
  /\ args = <<>>
  /\ wpc = "line"
  /\ vars = WordVars
  /\ env = <<>>

\* parse_and_execute, the argv of a simple command
split_args ==
  /\ wpc = "line"
  /\ args' = split_command_line(cmdline.text)
  /\ wpc' = "split"
  /\ UNCHANGED <<cmdline, jobVars, varVars, line, trace, loops, epc, streamVars, shellVars>>

\* parse_and_execute, expand_vars(args, arg_count) on a command that is no
\* builtin and no assignment
expand_args ==
  /\ wpc = "split"
  /\ \E o \in CmdOutputs :
       LET r == expand_vars(vars, args, o) IN
       IF \E k \in 1..Len(r) : r[k] = Hang
       THEN args' = args /\ wpc' = "hung"
       ELSE args' = r /\ wpc' = "expanded"
  /\ UNCHANGED <<cmdline, jobVars, varVars, line, trace, loops, epc, streamVars, shellVars>>

NextWords == split_args \/ expand_args

InitW ==
  /\ InitJobs /\ InitWords /\ line = <<>> /\ trace = <<>> /\ loops = 0 /\ epc = "done"
  /\ IdleStream /\ IdleShell

SpecWords == InitW /\ [][NextWords]_sv

\* the words a line of pieces stands for: the texts of each word's pieces,
\* joined
QuoteMeaning(ws) == [k \in 1..Len(ws) |-> Join([m \in 1..Len(ws[k]) |-> ws[k][m].text], <<>>)]

\* C20: the tokens of a line of bare and quoted pieces are its words in
\* order, each the concatenation of the texts of its pieces without the
\* quotes; a quoted text with blanks in it stays in one token.
C20_QuotedWordIsOneToken ==
  (cmdline.kind = "quote" /\ wpc = "split") => args = QuoteMeaning(cmdline.src)

\* VAR='a b' followed by a second, double-quoted word has been split
C20_Witness ==
  /\ wpc = "split"
  /\ cmdline.kind = "quote"
  /\ cmdline.src = <<<<Piece("none", <<"V", "=">>), Piece("single", <<"a", " ", "b">>)>>,
                     <<Piece("double", <<"a", " ", "b">>)>>>>
  /\ args = <<<<"V", "=", "a", " ", "b">>, <<"a", " ", "b">>>>

\* the value of an expression by its structure: [ok, v], not ok when a
\* division or a remainder has a zero divisor
RECURSIVE ArithValue(_)
ArithValue(e) ==
  IF e.op = "leaf"
  THEN [ok |-> TRUE, v |-> atol(IF isdigit(e.text[1]) THEN e.text ELSE get_var(WordVars, e.text))]
  ELSE LET a == ArithValue(e.l)
           b == ArithValue(e.r)
       IN IF ~a.ok \/ ~b.ok THEN [ok |-> FALSE, v |-> 0]
          ELSE IF e.op = "+" THEN [ok |-> TRUE, v |-> a.v + b.v]
          ELSE IF e.op = "-" THEN [ok |-> TRUE, v |-> a.v - b.v]
          ELSE IF e.op = "*" THEN [ok |-> TRUE, v |-> a.v * b.v]
          ELSE IF b.v = 0 THEN [ok |-> FALSE, v |-> 0]
          ELSE IF e.op = "/" THEN [ok |-> TRUE, v |-> CDiv(a.v, b.v)]
          ELSE [ok |-> TRUE, v |-> CRem(a.v, b.v)]

\* C17: after expansion the argv of `echo $((E))` is echo and the decimal
\* value of E, with or without blanks in E; when E divides by zero the words
\* of the line are left as they were written.
C17_ArithWordIsValue ==
  (cmdline.kind = "arith" /\ wpc = "expanded") =>
     LET r == ArithValue(cmdline.src) IN
     args = IF r.ok THEN <<echo, ToDecimal(r.v)>> ELSE split_command_line(cmdline.text)

\* C18: after expansion the word pre$NAMEsuf is pre, the value of NAME (the
\* empty string when NAME is undefined) and suf, whether or not pre and suf
\* are empty.
C18_DollarNameReplaced ==
  (cmdline.kind = "var" /\ wpc = "expanded") =>
     LET r == cmdline.src
         value == IF get_var(WordVars, r.name) = Undef THEN <<>> ELSE get_var(WordVars, r.name)
     IN args = <<echo, r.pre \o value \o r.suf>>

----------------------------------------------------------------------------
(* parse_stream (parser.c) over lines[], with parse_and_execute (shell.c) on
   lines that are simple commands, and the return of main.  The shell is not
   interactive.  The state the statements work on travels in a record st =
   [last_status, vars, trace, flag, exit_code], flag being loop_control_flag. *)

\* the words the modelled scripts are written with
Kw == [if |-> <<"i", "f">>, then |-> <<"t", "h", "e", "n">>, else |-> <<"e", "l", "s", "e">>,
       fi |-> <<"f", "i">>, while |-> <<"w", "h", "i", "l", "e">>, do |-> <<"d", "o">>,
       done |-> <<"d", "o", "n", "e">>, for |-> <<"f", "o", "r">>, in |-> <<"i", "n">>,
       case |-> <<"c", "a", "s", "e">>, esac |-> <<"e", "s", "a", "c">>,
       break |-> <<"b", "r", "e", "a", "k">>,
       continue |-> <<"c", "o", "n", "t", "i", "n", "u", "e">>,
       true |-> <<"t", "r", "u", "e">>, false |-> <<"f", "a", "l", "s", "e">>,
       exit |-> <<"e", "x", "i", "t">>, cd |-> <<"c", "d">>]

\* execute_command, not interactive: the status waitpid stores for the child.
\* `true` exits 0; every other program of the scripts exits nonzero or is not
\* found, and then the child ends with exit(EXIT_FAILURE)
wait_status(argv) == IF argv[1] = Kw.true THEN 0 ELSE 1

\* execute_command, not interactive: fork, execvp, waitpid, last_status
execute_words(argv, st) ==
  [st EXCEPT !.trace = Append(st.trace, argv),
             !.last_status = IF wait_status(argv) # 0 THEN 1 ELSE 0]

\* every token has a `=` that is not its first character
all_assignments(argv) == \A k \in 1..Len(argv) : strchr(argv[k], "=") > 1

RECURSIVE assign_all(_, _)
assign_all(vt, argv) ==
  IF Len(argv) = 0 THEN vt
  ELSE assign_all(set_var(vt, SubSeq(argv[1], 1, strchr(argv[1], "=") - 1),
                          From(argv[1], strchr(argv[1], "=") + 1)),
                  Tail(argv))

\* the directories that exist
Dirs == {<<"/">>, <<"/", "d">>}

\* the cd builtin with an argument: chdir(args[1]) and last_status
builtin_cd(argv, st) ==
  IF argv[2] \in Dirs THEN [st EXCEPT !.cwd = argv[2], !.last_status = 0]
  ELSE [st EXCEPT !.last_status = 1]

\* parse_and_execute once the line is split: execute_builtin first (cd with
\* an argument; the exit builtin ends the process with EXIT_SUCCESS), then a
\* line of assignments calls set_var for each, and anything else is expanded
\* and run as a program.  The scripts use no other builtin, no alias, no glob
\* character and no redirection.
run_argv(argv, st) ==
  IF Len(argv) = 0 THEN st
  ELSE IF argv[1] = Kw.cd /\ Len(argv) >= 2 THEN builtin_cd(argv, st)
  ELSE IF argv[1] = Kw.exit THEN [st EXCEPT !.exit_code = 0]
  ELSE IF all_assignments(argv) THEN [st EXCEPT !.vars = assign_all(st.vars, argv)]
  ELSE execute_words(expand_vars(st.vars, argv, <<>>), st)

\* parse_and_execute on a line with no `&&`, `||`, `|` and no trailing `&`;
\* it returns 0 on every path.  Nothing runs once exit has been called.
parse_and_execute_line(s, st) ==
  IF st.exit_code # -1 \/ Len(s) = 0 THEN st
  ELSE run_argv(split_command_line(trim(s)), st)

\* eval_command: rc == 0, rc being what parse_and_execute returned
eval_command_rc == 0

RECURSIVE exec_block_lines(_, _, _, _)

\* exec_block after parse_and_execute on line k: a set flag ends the block
after_block_line(ls, k, end, st) ==
  IF st.flag # 0 THEN st ELSE exec_block_lines(ls, k + 1, end, st)

\* exec_block(lines, start, end), end exclusive
exec_block_lines(ls, k, end, st) ==
  IF k >= end \/ st.exit_code # -1 THEN st
  ELSE IF trim(ls[k]) = Kw.break THEN [st EXCEPT !.flag = 1]
  ELSE IF trim(ls[k]) = Kw.continue THEN [st EXCEPT !.flag = 2]
  ELSE after_block_line(ls, k, end, parse_and_execute_line(trim(ls[k]), st))

\* the search for the line that closes a loop: lines that start with the
\* opener nest; 0 when the closer is missing
RECURSIVE find_done(_, _, _, _)
find_done(ls, j, opener, nested) ==
  IF j > Len(ls) THEN 0
  ELSE IF ls[j] = Kw.done
  THEN (IF nested + (IF HasPrefix(ls[j], opener) THEN 1 ELSE 0) = 0 THEN j
        ELSE find_done(ls, j + 1, opener, nested + (IF HasPrefix(ls[j], opener) THEN 1 ELSE 0) - 1))
  ELSE find_done(ls, j + 1, opener, nested + (IF HasPrefix(ls[j], opener) THEN 1 ELSE 0))

\* the search for else and fi: [fi, else_line], 0 for a line not found
RECURSIVE find_fi(_, _, _, _)
find_fi(ls, j, nested, else_line) ==
  IF j > Len(ls) THEN [fi |-> 0, else_line |-> else_line]
  ELSE IF ls[j] = Kw.fi
  THEN (IF nested = 0 THEN [fi |-> j, else_line |-> else_line]
        ELSE find_fi(ls, j + 1, nested - 1, else_line))
  ELSE IF HasPrefix(ls[j], Kw.if) THEN find_fi(ls, j + 1, nested + 1, else_line)
  ELSE find_fi(ls, j + 1, nested, IF ls[j] = Kw.else /\ nested = 0 THEN j ELSE else_line)

\* a condition that runs over the following lines up to the line that is
\* exactly w: [cond, at], at = Len(ls) + 1 when no line is w
RECURSIVE gather_until(_, _, _, _)
gather_until(ls, j, w, cond) ==
  IF j > Len(ls) \/ ls[j] = w THEN [cond |-> cond, at |-> j]
  ELSE gather_until(ls, j + 1, w, cond \o <<" ">> \o ls[j])

\* fnmatch(pattern, word, 0) on patterns of literal characters, `*` and `?`
RECURSIVE fnmatch(_, _)
fnmatch(pattern, word) ==
  IF Len(pattern) = 0 THEN Len(word) = 0
  ELSE IF pattern[1] = "*"
  THEN fnmatch(Tail(pattern), word) \/ (Len(word) > 0 /\ fnmatch(pattern, Tail(word)))
  ELSE /\ Len(word) > 0
       /\ (pattern[1] = "?" \/ pattern[1] = word[1])
       /\ fnmatch(Tail(pattern), Tail(word))

\* what the shell of parse_stream works on
StreamState ==
  [last_status |-> last_status, vars |-> vars, trace |-> trace,
   flag |-> loop_control_flag, exit_code |-> exit_code, cwd |-> cwd]

streamFrame == <<pc, jobs, procs, tty_pgrp, termios, waitJob, waitCtx, wstatus,
                 out, obs, env, line, lines, wordVars, aliases, alias_depth, launch, io, typed>>

\* parse_stream after a statement that left st and printed d: it goes on with
\* line next, or has left the loop over the lines by break (broke); the
\* process is gone once exit was called
resume(st, next, d, broke) ==
  /\ last_status' = st.last_status
  /\ vars' = st.vars
  /\ trace' = st.trace
  /\ loop_control_flag' = st.flag
  /\ exit_code' = st.exit_code
  /\ cwd' = st.cwd
  /\ diag' = diag \o d
  /\ lineno' = next
  /\ loops' = 0
  /\ epc' = IF st.exit_code # -1 THEN "done" ELSE IF broke THEN "return" ELSE "start"
  /\ UNCHANGED streamFrame

\* the branch of the loop over the lines that takes the line L.  The branch
\* for an empty line is never taken: the reading loop stores no empty line.
statement_kind(L) ==
  IF HasPrefix(L, Kw.if \o <<" ">>) \/ L = Kw.if THEN "if"
  ELSE IF HasPrefix(L, Kw.while \o <<" ">>) \/ L = Kw.while THEN "while"
  ELSE IF HasPrefix(L, Kw.for \o <<" ">>) \/ L = Kw.for THEN "for"
  ELSE IF HasPrefix(L, Kw.case \o <<" ">>) THEN "case"
  ELSE IF strstr(L, <<"(", ")">>) > 0 /\ strchr(L, "{") > 0 /\ strchr(L, " ") = 0 THEN "function"
  ELSE "plain"

\* the loop over the lines is at a line of this kind
AtLine(kind) == epc = "start" /\ lineno <= Len(lines) /\ statement_kind(lines[lineno]) = kind

\* ---- if ----

\* the condition and then_line: `then` on the if line (the copy starts after
\* "if " and is p - lines[i] - 1 characters long), or on a line of its own
if_head(ls, i) ==
  IF strstr(ls[i], Kw.then) > 0
  THEN [cond |-> SubSeq(ls[i], 4, IF strstr(ls[i], Kw.then) + 1 < Len(ls[i])
                                  THEN strstr(ls[i], Kw.then) + 1 ELSE Len(ls[i])),
        at |-> i]
  ELSE gather_until(ls, i + 1, Kw.then, From(ls[i], 4))

\* the branch taken once the condition has run
if_body(ls, then_line, ends, st) ==
  IF eval_command_rc = 0
  THEN exec_block_lines(ls, then_line + 1,
                        IF ends.else_line = 0 THEN ends.fi ELSE ends.else_line, st)
  ELSE IF ends.else_line # 0 THEN exec_block_lines(ls, ends.else_line + 1, ends.fi, st)
  ELSE st

if_found(head, ends) ==
  IF ends.fi = 0 THEN resume(StreamState, lineno, <<"parser: missing fi">>, TRUE)
  ELSE resume(if_body(lines, head.at, ends, parse_and_execute_line(head.cond, StreamState)),
              ends.fi + 1, <<>>, FALSE)

if_statement(head) == if_found(head, find_fi(lines, head.at + 1, 0, 0))

\* parse_stream at an if line (no script has a line that is just `if`)
StreamIf ==
  /\ AtLine("if")
  /\ if_statement(if_head(lines, lineno))

\* ---- while ----

\* the condition and do_line: a `do` on the while line after a blank leaves
\* do_line at the while line, else the condition runs up to a line `do`
while_head(ls, i) ==
  IF strstr(ls[i], Kw.do) > 1 /\ ls[i][strstr(ls[i], Kw.do) - 1] = " "
  THEN [cond |-> SubSeq(ls[i], 7, strstr(ls[i], Kw.do) - 1), at |-> i]
  ELSE gather_until(ls, i + 1, Kw.do, From(ls[i], 7))

\* after one pass of the body: break leaves the loop, anything else
\* evaluates the condition again
while_after(done_line, st) ==
  IF st.flag = 1 \/ st.exit_code # -1 THEN resume(st, done_line + 1, <<>>, FALSE)
  ELSE /\ last_status' = st.last_status
       /\ vars' = st.vars
       /\ trace' = st.trace
       /\ loop_control_flag' = st.flag
       /\ cwd' = st.cwd
       /\ loops' = loops + 1
       /\ epc' = "loop"
       /\ UNCHANGED <<exit_code, diag, lineno, streamFrame>>

\* eval_command(cond), reset_loop_flag, exec_block
while_pass(head, done_line, st) ==
  IF eval_command_rc # 0 THEN resume(st, done_line + 1, <<>>, FALSE)
  ELSE while_after(done_line,
                   exec_block_lines(lines, head.at + 1, done_line, [st EXCEPT !.flag = 0]))

while_found(head, done_line) ==
  IF done_line = 0
  THEN resume(StreamState, lineno, <<"parser: missing done in while-loop">>, TRUE)
  ELSE while_pass(head, done_line, parse_and_execute_line(head.cond, StreamState))

while_statement(head) ==
  IF head.at > Len(lines) \/ lines[head.at] # Kw.do
  THEN resume(StreamState, lineno, <<"parser: missing do in while-loop">>, TRUE)
  ELSE while_found(head, find_done(lines, head.at + 1, Kw.while, 0))

\* parse_stream at a while line (no script has a line that is just `while`):
\* the search for do and done, then one evaluation of the condition and one
\* pass of the body per step, at most MaxLoops passes
StreamWhile ==
  /\ epc \in {"start", "loop"}
  /\ lineno <= Len(lines)
  /\ statement_kind(lines[lineno]) = "while"
  /\ loops < MaxLoops
  /\ while_statement(while_head(lines, lineno))

\* ---- for ----

\* the header grows by the following lines until it holds " do" or the line
\* just added is `do`: [header, header_end]
RECURSIVE for_header(_, _, _)
for_header(ls, header_end, header) ==
  IF strstr(header, <<" ", "d", "o">>) = 0 /\ ls[header_end] # Kw.do
  THEN (IF header_end + 1 > Len(ls) THEN [header |-> header, header_end |-> header_end + 1]
        ELSE for_header(ls, header_end + 1, header \o <<" ">> \o ls[header_end + 1]))
  ELSE [header |-> header, header_end |-> header_end]

\* the end of the token of s that starts at p
RECURSIVE token_end(_, _)
token_end(s, p) == IF p <= Len(s) /\ ~isspace(s[p]) THEN token_end(s, p + 1) ELSE p

\* where the context of strtok_r points after k tokens of s from p
RECURSIVE strtok_ctx(_, _, _)
strtok_ctx(s, p, k) ==
  IF k = 0 THEN p
  ELSE strtok_ctx(s, IF token_end(s, skip_ws(s, p)) > Len(s) THEN Len(s) + 1
                     ELSE token_end(s, skip_ws(s, p)) + 1, k - 1)

\* rest cut at its first " do"
cut_at_do(rest) ==
  IF strstr(rest, <<" ", "d", "o">>) > 0
  THEN SubSeq(rest, 1, strstr(rest, <<" ", "d", "o">>) - 1) ELSE rest

\* the item list: what follows `for NAME in` in the header, up to " do"
itemlist(header) == cut_at_do(From(header, strtok_ctx(header, 1, 3)))

\* an item without its trailing semicolon
strip_semicolon(item) ==
  IF Len(item) > 0 /\ item[Len(item)] = ";" THEN SubSeq(item, 1, Len(item) - 1) ELSE item

RECURSIVE for_items(_, _, _, _, _, _)

for_after(ls, rest, varname, do_line, done_line, st) ==
  IF st.flag = 1 THEN st ELSE for_items(ls, rest, varname, do_line, done_line, st)

\* the loop over the items: set_var, reset_loop_flag, exec_block
for_items(ls, items, varname, do_line, done_line, st) ==
  IF Len(items) = 0 \/ st.exit_code # -1 THEN st
  ELSE for_after(ls, Tail(items), varname, do_line, done_line,
                 exec_block_lines(ls, do_line + 1, done_line,
                                  [st EXCEPT !.vars = set_var(st.vars, varname, strip_semicolon(items[1])),
                                             !.flag = 0]))

for_found(hd, varname, items, done_line) ==
  IF done_line = 0
  THEN resume(StreamState, lineno, <<"parser: missing done in for-loop">>, TRUE)
  ELSE IF Len(items) = 0
  THEN resume(StreamState, done_line + 1, <<"parser: empty item list in for-loop">>, FALSE)
  ELSE resume(for_items(lines, strtok_words(items, <<>>, <<>>), varname, hd.header_end,
                        done_line, StreamState),
              done_line + 1, <<>>, FALSE)

for_tokens(hd, toks) ==
  IF Len(toks) < 2
  THEN resume(StreamState, lineno, <<"parser: missing variable name in for-loop">>, TRUE)
  ELSE IF Len(toks) < 3 \/ toks[3] # Kw.in
  THEN resume(StreamState, lineno, <<"parser: missing 'in' keyword in for-loop">>, TRUE)
  ELSE for_found(hd, toks[2], itemlist(hd.header),
                 find_done(lines, hd.header_end + 1, Kw.for, 0))

for_statement(hd) ==
  IF /\ strstr(hd.header, <<" ", "d", "o">>) = 0
     /\ (hd.header_end > Len(lines) \/ lines[hd.header_end] # Kw.do)
  THEN resume(StreamState, lineno, <<"parser: malformed for-loop header (missing do)">>, TRUE)
  ELSE for_tokens(hd, strtok_words(hd.header, <<>>, <<>>))

\* parse_stream at a for line: the whole loop
StreamFor ==
  /\ AtLine("for")
  /\ for_statement(for_header(lines, lineno, lines[lineno]))

\* ---- case ----

\* the command of an arm: what follows `)`, trimmed, without a trailing `;;`
arm_command(cmd) ==
  IF Len(cmd) >= 2 /\ cmd[Len(cmd)] = ";" /\ cmd[Len(cmd) - 1] = ";"
  THEN SubSeq(cmd, 1, Len(cmd) - 2) ELSE cmd

\* the loop over the arms without its `if (executed) break`
RECURSIVE case_arms_all(_, _, _, _, _)
case_arms_all(ls, k, j, word, st) ==
  IF k >= j THEN st
  ELSE IF strchr(ls[k], ")") = 0 THEN case_arms_all(ls, k + 1, j, word, st)
  ELSE IF fnmatch(trim(SubSeq(ls[k], 1, strchr(ls[k], ")") - 1)), word)
  THEN case_arms_all(ls, k + 1, j, word,
                     parse_and_execute_line(arm_command(trim(From(ls[k], strchr(ls[k], ")") + 1))), st))
  ELSE case_arms_all(ls, k + 1, j, word, st)

\* the loop over the lines between the case line and esac: a line without
\* `)` is skipped, the first arm whose pattern matches runs and ends the loop
RECURSIVE case_arms(_, _, _, _, _)
case_arms(ls, k, j, word, st) ==
  IF k >= j THEN st
  ELSE IF strchr(ls[k], ")") = 0 THEN case_arms(ls, k + 1, j, word, st)
  ELSE IF fnmatch(trim(SubSeq(ls[k], 1, strchr(ls[k], ")") - 1)), word)
  THEN parse_and_execute_line(arm_command(trim(From(ls[k], strchr(ls[k], ")") + 1))), st)
  ELSE case_arms(ls, k + 1, j, word, st)

case_found(word, esac) ==
  IF esac.at > Len(lines) THEN resume(StreamState, lineno, <<"parser: missing esac">>, TRUE)
  ELSE resume(case_arms(lines, lineno + 1, esac.at, word, StreamState), esac.at + 1, <<>>, FALSE)

case_statement(L, in_ptr) ==
  IF in_ptr = 0 THEN resume(StreamState, lineno, <<"parser: malformed case header">>, TRUE)
  ELSE case_found(SubSeq(L, 6, in_ptr - 1), gather_until(lines, lineno + 1, Kw.esac, <<>>))

\* parse_stream at a case line
StreamCase ==
  /\ AtLine("case")
  /\ case_statement(lines[lineno], strstr_from(lines[lineno], <<" ", "i", "n">>, 6))

\* ---- function definition ----

\* the scan for the closing brace: [at, depth]
RECURSIVE brace_scan(_, _, _)
brace_scan(ls, j, brace_depth) ==
  IF j > Len(ls) \/ brace_depth <= 0 THEN [at |-> j, depth |-> brace_depth]
  ELSE brace_scan(ls, j + 1, brace_depth + (IF strchr(ls[j], "{") > 0 THEN 1 ELSE 0)
                                         - (IF strchr(ls[j], "}") > 0 THEN 1 ELSE 0))

function_found(scan) ==
  IF scan.depth # 0 THEN resume(StreamState, lineno, <<"parser: missing } in function">>, TRUE)
  ELSE resume(StreamState, scan.at, <<>>, FALSE)

\* parse_stream at NAME(){ : store_function keeps the body, which no line of
\* the scripts can run, so the table of functions is left out of the state
StreamFunction ==
  /\ AtLine("function")
  /\ function_found(brace_scan(lines, lineno + 1, 1))

\* parse_stream at any other line: parse_and_execute
StreamPlain ==
  /\ AtLine("plain")
  /\ resume(parse_and_execute_line(lines[lineno], StreamState), lineno + 1, <<>>, FALSE)

\* main, -c and script mode: parse_stream is through the lines or has left
\* its loop, and main returns 0
main_return ==
  /\ epc = "return" \/ (epc = "start" /\ lineno > Len(lines))
  /\ exit_code' = 0
  /\ epc' = "done"
  /\ UNCHANGED <<last_status, vars, trace, loop_control_flag, cwd, diag, lineno, loops,
                 streamFrame>>

----------------------------------------------------------------------------
(* The scripts: lines[] as the reading loop of parse_stream leaves it, each
   line a trimmed, non-empty piece between semicolons or line ends *)

\* the longest script of plain lines
MaxLines == 2

\* the longest word list of a for loop
MaxItems == 2

\* the most arms of a case statement
MaxArms == 3

\* words joined by single blanks
Sp(ws) == Join(ws, <<" ">>)

\* the sequences over S of lengths lo..hi
SeqsOf(S, lo, hi) == UNION {[1..n -> S] : n \in lo..hi}

\* lines that are simple commands
PlainLines ==
  {Kw.true, Kw.false, Kw.exit, <<"X", "=", "1">>, <<"X", "=", "1", " ", "Y", "=", "2">>,
   <<"A", " ", "$", "X">>}

PlainScripts == {[kind |-> "plain", text |-> t] : t \in SeqsOf(PlainLines, 0, MaxLines)}

\* constructs with a part missing; closed: the last keyword of the construct
\* is there, so what follows it is a statement of its own
Malformed ==
  {[what |-> "fi", closed |-> FALSE, text |-> <<Sp(<<Kw.if, Kw.true>>), Kw.then, <<"B">>>>],
   [what |-> "while do", closed |-> TRUE, text |-> <<Sp(<<Kw.while, Kw.true>>), <<"B">>, Kw.done>>],
   [what |-> "while do on the line", closed |-> TRUE,
    text |-> <<Sp(<<Kw.while, Kw.true, Kw.do>>), <<"B">>, Kw.done>>],
   [what |-> "while done", closed |-> FALSE, text |-> <<Sp(<<Kw.while, Kw.true>>), Kw.do, <<"B">>>>],
   [what |-> "for header", closed |-> TRUE, text |-> <<Kw.for, Kw.do, <<"B">>, Kw.done>>],
   [what |-> "for in", closed |-> TRUE,
    text |-> <<Sp(<<Kw.for, <<"x">>, <<"a">>>>), Kw.do, <<"B">>, Kw.done>>],
   [what |-> "for do", closed |-> TRUE,
    text |-> <<Sp(<<Kw.for, <<"x">>, Kw.in, <<"a">>>>), <<"B">>, Kw.done>>],
   [what |-> "for done", closed |-> FALSE,
    text |-> <<Sp(<<Kw.for, <<"x">>, Kw.in, <<"a">>>>), Kw.do, <<"B">>>>],
   [what |-> "case in", closed |-> TRUE,
    text |-> <<Sp(<<Kw.case, <<"a">>>>), <<"a", ")", " ", "B">>, Kw.esac>>],
   [what |-> "esac", closed |-> FALSE,
    text |-> <<Sp(<<Kw.case, <<"a">>, Kw.in>>), <<"a", ")", " ", "B">>>>],
   [what |-> "}", closed |-> FALSE, text |-> <<<<"f", "(", ")", "{">>, <<"B">>>>]}

\* a malformed construct after nothing or after a command, with a command after it
BadScripts ==
  {[kind |-> "bad", what |-> m.what, closed |-> m.closed, text |-> pre \o m.text \o <<<<"A">>>>] :
     m \in Malformed, pre \in {<<>>, <<Kw.true>>, <<Kw.false>>}}

\* loops that end by break, by continue in the last pass, or by neither
CtlLoops ==
  {[how |-> "while break", text |-> <<Sp(<<Kw.while, Kw.true>>), Kw.do, <<"A">>, Kw.break, Kw.done>>],
   [how |-> "for break",
    text |-> <<Sp(<<Kw.for, <<"x">>, Kw.in, <<"a">>, <<"b">>>>), Kw.do, <<"A">>, Kw.break, Kw.done>>],
   [how |-> "for continue",
    text |-> <<Sp(<<Kw.for, <<"x">>, Kw.in, <<"a">>, <<"b">>>>), Kw.do, Kw.continue, <<"A">>, Kw.done>>],
   [how |-> "for",
    text |-> <<Sp(<<Kw.for, <<"x">>, Kw.in, <<"a">>, <<"b">>>>), Kw.do, <<"A">>, Kw.done>>],
   [how |-> "while",
    text |-> <<Sp(<<Kw.while, Kw.true>>), Kw.do, <<"A">>, Kw.done>>]}

\* a loop, then an if with a body of two lines, then a command
CtlScripts ==
  {[kind |-> "ctl", how |-> l.how,
    text |-> l.text \o <<Sp(<<Kw.if, Kw.true>>), Kw.then, <<"B">>, <<"C">>, Kw.fi, <<"D">>>>] :
     l \in CtlLoops}

\* words for the list of a for loop
ForWords == {<<"a">>, <<"d", "o", "g">>, <<"u", "n", "d", "o">>}

\* for x in W1 ... Wk; do B $x; done; A $x
ForScripts ==
  {[kind |-> "for", words |-> ws,
    text |-> <<Sp(<<Kw.for, <<"x">>, Kw.in>> \o ws), Kw.do, <<"B", " ", "$", "x">>, Kw.done,
               <<"A", " ", "$", "x">>>>] : ws \in SeqsOf(ForWords, 1, MaxItems)}

CaseWords == {<<"a", "b">>, <<"c">>}

CasePatterns == {<<"a", "b">>, <<"a", "*">>, <<"?">>, <<"b">>}

\* the command of arm k
ArmProgram(k) == <<"P", ToDecimal(k)[1]>>

\* case W in; PAT1) P1 ;; ... esac; A -- the reading loop drops the `;;`
CaseScripts ==
  {[kind |-> "case", word |-> w, arms |-> ps,
    text |-> <<Sp(<<Kw.case, w, Kw.in>>)>>
             \o [k \in 1..Len(ps) |-> ps[k] \o <<")", " ">> \o ArmProgram(k)]
             \o <<Kw.esac, <<"A">>>>] :
     w \in CaseWords, ps \in SeqsOf(CasePatterns, 1, MaxArms)}

\* an if with both branches between assignments, and a function definition
OtherScripts ==
  {[kind |-> "if else",
    text |-> <<<<"X", "=", "0">>, Sp(<<Kw.if, Kw.true>>), Kw.then, <<"X", "=", "1">>, Kw.else,
               <<"X", "=", "2">>, Kw.fi, <<"A", " ", "$", "X">>>>],
   [kind |-> "function", text |-> <<<<"f", "(", ")", "{">>, <<"B">>, <<"}">>, <<"A">>>>]}

\* a function definition and a later call of it; expect: the commands that
\* run when the call runs the stored body with $1 set
CallScripts ==
  {[kind |-> "call",
    text |-> <<<<"f", "(", ")", "{">>, <<"B", " ", "$", "1">>, <<"}">>, <<"f", " ", "a">>, <<"A">>>>,
    expect |-> <<<<<<"B">>, <<"a">>>>, <<<<"A">>>>>>],
   [kind |-> "call",
    text |-> <<<<"f", "(", ")", " ", "{">>, <<"B">>, <<"C">>, <<"}">>, <<"f">>>>,
    expect |-> <<<<<<"B">>>>, <<<<"C">>>>>>]}

\* one command line with a quote that is opened and never closed
OpenQuoteScripts ==
  {[kind |-> "open quote", text |-> <<t>>] :
     t \in {<<"A", " ", "'", "b">>, <<"A", " ", "\"", "b", " ", "c">>, <<"X", "=", "'", "1">>,
            <<"X", "=", "1", " ", "Y", "=", "\"", "2">>}}

\* a construct in the body of another; expect: the commands that run when the
\* inner construct is evaluated as a construct
NestedScripts ==
  {[kind |-> "nested",
    text |-> <<Sp(<<Kw.for, <<"x">>, Kw.in, <<"a">>, <<"b">>>>), Kw.do, Sp(<<Kw.if, Kw.true>>),
               Kw.then, <<"B", " ", "$", "x">>, Kw.fi, Kw.done, <<"A">>>>,
    expect |-> <<<<Kw.true>>, <<<<"B">>, <<"a">>>>, <<Kw.true>>, <<<<"B">>, <<"b">>>>, <<<<"A">>>>>>],
   [kind |-> "nested",
    text |-> <<Sp(<<Kw.while, Kw.true>>), Kw.do, Sp(<<Kw.for, <<"x">>, Kw.in, <<"a">>>>), Kw.do,
               <<"B">>, Kw.done, Kw.break, Kw.done, <<"A">>>>,
    expect |-> <<<<Kw.true>>, <<<<"B">>>>, <<<<"A">>>>>>],
   [kind |-> "nested",
    text |-> <<Sp(<<Kw.if, Kw.true>>), Kw.then, Sp(<<Kw.case, <<"a">>, Kw.in>>),
               <<"b", ")", " ", "B">>, <<"a", ")", " ", "C">>, Kw.esac, Kw.fi, <<"A">>>>,
    expect |-> <<<<Kw.true>>, <<<<"C">>>>, <<<<"A">>>>>>],
   [kind |-> "nested",
    text |-> <<Sp(<<Kw.if, Kw.true>>), Kw.then, Sp(<<Kw.if, Kw.true>>), Kw.then, <<"B">>, Kw.fi,
               <<"C">>, Kw.fi, <<"A">>>>,
    expect |-> <<<<Kw.true>>, <<Kw.true>>, <<<<"B">>>>, <<<<"C">>>>, <<<<"A">>>>>>]}

\* cd to a directory named literally and to one held in a variable
CdScripts ==
  {[kind |-> "cd", text |-> <<Sp(<<Kw.cd, <<"/", "d">>>>)>>],
   [kind |-> "cd", text |-> <<<<"D", "I", "R", "=", "/", "d">>, Sp(<<Kw.cd, <<"$", "D", "I", "R">>>>)>>]}

StreamInputs ==
  PlainScripts \cup BadScripts \cup CtlScripts \cup ForScripts \cup CaseScripts \cup OtherScripts
  \cup OpenQuoteScripts \cup NestedScripts \cup CdScripts \cup CallScripts

\* the shell started with -c or with a script, the lines read
InitStream ==
  /\ line \in StreamInputs
  /\ lines = line.text
  /\ lineno = 1
  /\ loop_control_flag = 0
  /\ exit_code = -1
  /\ diag = <<>>
  /\ trace = <<>>
  /\ loops = 0
  /\ epc = "start"

\* the shell as main leaves it before the first line is read
FreshShell ==
  [last_status |-> 0, vars |-> <<>>, trace |-> <<>>, flag |-> 0, exit_code |-> -1,
   cwd |-> <<"/">>]

\* the text of the script on one line, its lines joined by `; `
OneLine(ls) == Join(ls, <<";", " ">>)

\* the longest line typed at the prompt
MaxTyped == 32

\* main, interactive: the line read_input returned goes to parse_and_execute
\* as it is.  Taken once the -c run of the same text is over, in a shell of
\* its own, so that the two runs can be compared.
read_eval_line ==
  /\ epc = "done"
  /\ typed = <<>>
  /\ Len(OneLine(line.text)) <= MaxTyped
  /\ typed' = <<parse_and_execute_line(OneLine(line.text), FreshShell).trace>>
  /\ UNCHANGED <<jobVars, varVars, line, trace, loops, epc, streamVars, wordVars, aliases,
                 alias_depth, cwd, launch, io>>

NextStream ==
  \/ read_eval_line
  \/ StreamIf
  \/ StreamWhile
  \/ StreamFor
  \/ StreamCase
  \/ StreamFunction
  \/ StreamPlain
  \/ main_return

InitS == InitJobs /\ IdleVars /\ InitStream /\ IdleWords /\ IdleShell

SpecStream == InitS /\ [][NextStream]_sv

----------------------------------------------------------------------------
(* Claims about scripts *)

\* C12: in -c mode and in script mode the shell exits with last_status of the
\* last command it ran (0 for an empty input) and with a nonzero status after
\* a parse error, and the exit builtin ends the shell with the current
\* last_status.
C12_ExitStatusIsLastStatus ==
  (exit_code # -1 /\ line.kind \in {"plain", "bad"}) =>
    IF line.kind = "bad" THEN exit_code # 0 ELSE exit_code = last_status

\* C13: a malformed construct (a missing fi, do, done, esac or closing brace,
\* a malformed for or case header) prints a diagnostic, runs none of the
\* construct's lines and leaves last_status nonzero, and the well-formed
\* statement after the construct is still run.
C13_MalformedConstructIsLocal ==
  (line.kind = "bad" /\ epc = "done") =>
    /\ diag # <<>>
    /\ ~Ran(<<<<"B">>>>)
    /\ last_status # 0
    /\ line.closed => Ran(<<<<"A">>>>)

\* C14: break and continue are consumed by the loop they are in: once the
\* loop has finished, after a break or after a continue in its last pass, the
\* flag is clear and every statement after the loop runs, each line of the
\* body of a later if included.
C14_LoopControlEndsWithLoop ==
  (line.kind = "ctl" /\ epc = "done") =>
    /\ loop_control_flag = 0
    /\ Ran(<<<<"B">>>>) /\ Ran(<<<<"C">>>>) /\ Ran(<<<<"D">>>>)

\* C15: for NAME in W1 ... Wk; do BODY done runs BODY k times, in order, with
\* NAME holding Wi in pass i, runs nothing but BODY, and leaves Wk in NAME,
\* whatever the words are, words that begin with or contain `do` included.
C15_ForRunsBodyPerWord ==
  (line.kind = "for" /\ epc = "done") =>
    /\ trace = [k \in 1..Len(line.words) |-> <<<<"B">>, line.words[k]>>]
               \o <<<<<<"A">>, line.words[Len(line.words)]>>>>
    /\ get_var(vars, <<"x">>) = line.words[Len(line.words)]

\* the first arm whose pattern matches w, 0 if none does
FirstMatch(ps, w) ==
  IF \E k \in 1..Len(ps) : fnmatch(ps[k], w)
  THEN CHOOSE k \in 1..Len(ps) : fnmatch(ps[k], w) /\ \A m \in 1..(k - 1) : ~fnmatch(ps[m], w)
  ELSE 0

\* C16: case WORD in ... esac runs the command of the first arm whose glob
\* pattern matches WORD and the command of no other arm: earlier arms that do
\* not match and later arms, matching or not, are skipped; when no arm
\* matches nothing is run.
C16_CaseRunsFirstMatch ==
  (line.kind = "case" /\ epc = "done") =>
    trace = (IF FirstMatch(line.arms, line.word) = 0 THEN <<>>
             ELSE <<<<ArmProgram(FirstMatch(line.arms, line.word))>>>>) \o <<<<<<"A">>>>>>

\* a case statement has run whose first arm does not match and whose second
\* and third arms both do
C16_Witness ==
  /\ line.kind = "case" /\ epc = "done"
  /\ Len(line.arms) = 3
  /\ ~fnmatch(line.arms[1], line.word)
  /\ fnmatch(line.arms[2], line.word) /\ fnmatch(line.arms[3], line.word)
  /\ trace = <<<<ArmProgram(2)>>, <<<<"A">>>>>>

\* C19: a simple command whose tokens are all NAME=VALUE performs the
\* assignments, runs no program and leaves last_status 0 whatever it was
\* before; afterwards each NAME holds its VALUE.
C19_AssignmentsLeaveStatusZero ==
  [][(/\ line.kind = "plain"
      /\ AtLine("plain")
      /\ all_assignments(split_command_line(lines[lineno]))
      /\ lineno' = lineno + 1)
     => /\ last_status' = 0
        /\ trace' = trace
        /\ vars' = assign_all(vars, split_command_line(lines[lineno]))]_sv

\* C21: a command line with a single or double quote that is opened and never
\* closed is rejected: no command runs for it, no variable is assigned, and
\* last_status becomes nonzero.
C21_OpenQuoteIsRejected ==
  (line.kind = "open quote" /\ epc = "done") =>
    /\ trace = <<>>
    /\ vars = <<>>
    /\ last_status # 0

\* C25: expand_vars terminates for every word and every variable store, also
\* for a word with a `$` that no name follows after other text (`a$`,
\* `cost$-5`) and for a variable whose value holds a `$NAME` reference.
C25_ExpandVarsTerminates == wpc # "hung"

\* the words that open, divide and close the constructs
Keywords == {Kw.if, Kw.then, Kw.else, Kw.fi, Kw.while, Kw.for, Kw.do, Kw.done, Kw.case, Kw.esac}

\* C29: a construct in the body of an if, while or for is evaluated as a
\* construct: none of its keyword lines is run as a command, every fi and
\* done closes its own opener, and the commands that run are the ones its
\* condition or word list dictates.
C29_NestedConstructsAreEvaluated ==
  line.kind = "nested" =>
    /\ \A k \in 1..Len(trace) : trace[k][1] \notin Keywords
    /\ epc = "done" => trace = line.expect

\* C30: the words of a simple command are expanded before builtin dispatch,
\* so a builtin receives expanded arguments: cd $DIR changes to the directory
\* held in DIR.
C30_BuiltinGetsExpandedWords ==
  (line.kind = "cd" /\ epc = "done") => cwd = <<"/", "d">>

\* C34: after NAME() { BODY } has been read, a later command whose first
\* word is NAME runs the stored BODY lines in order in the shell, with $1..$n
\* set to the call's arguments, and no program called NAME is executed.
C34_FunctionCallRunsBody ==
  line.kind = "call" =>
    /\ ~Ran(<<<<"f">>, <<"a">>>>) /\ ~Ran(<<<<"f">>>>)
    /\ epc = "done" => trace = line.expect

\* C37: a line typed at the interactive prompt is evaluated like the same
\* text given to -c: the simple commands executed are the same, so statements
\* separated by `;` run one after another and an if, while, for or case
\* written on one line is executed as control flow.
C37_TypedLineRunsLikeDashC == typed # <<>> => typed[1] = trace

----------------------------------------------------------------------------
(* expand_aliases (alias.c), one pass of its loop per step; trace holds the
   first words that were replaced, in order *)

\* the bound of the loop of expand_aliases
AliasLimit == 10

\* a loop condition that is always true
alias_loop_unbounded(d) == TRUE

\* while (depth++ < 10): the test on the value depth had
alias_loop_test(d) == d < AliasLimit

\* get_alias: the value of the alias name, NULL if there is none
get_alias(at, name) == IF name \in DOMAIN at THEN [null |-> FALSE, s |-> at[name]] ELSE [null |-> TRUE, s |-> <<>>]

\* the new argv: the tokens of the alias value, then the other arguments
alias_substitute(argv, valv) == valv \o Tail(argv)

\* expand_aliases has returned
alias_return ==
  /\ wpc' = "aliased"
  /\ UNCHANGED <<args, trace>>

\* the body of the loop with the value get_alias gave and its tokens
alias_body(avalue, valv) ==
  IF avalue.null \/ Len(valv) = 0 THEN alias_return
  ELSE /\ args' = alias_substitute(args, valv)
       /\ trace' = Append(trace, args[1])
       /\ wpc' = "alias"

\* expand_aliases: the entry test on the first pass, then the loop test with
\* its increment and one pass of the body
expand_aliases_pass ==
  /\ wpc = "alias"
  /\ IF Len(args) = 0 THEN alias_return /\ UNCHANGED alias_depth
     ELSE /\ alias_depth' = alias_depth + 1
          /\ IF alias_loop_test(alias_depth)
             THEN alias_body(get_alias(aliases, args[1]),
                             split_command_line(get_alias(aliases, args[1]).s))
             ELSE alias_return
  /\ UNCHANGED <<cmdline, aliases, cwd, launch, io, typed, jobVars, varVars, line, loops, epc,
                 streamVars>>

ls == <<"l", "s">>

ll == <<"l", "l">>

AliasNames == {ls, ll}

AliasValues == {<<"l", "s", " ", "-", "l">>, ls, ll, <<"x">>, <<"l", "l", " ", "y">>, <<" ">>}

\* every table that defines some of the names
AliasTables == UNION {[D -> AliasValues] : D \in SUBSET AliasNames}

\* the argv of the command, as split_command_line left it
AliasInputs == {<<>>, <<ls>>, <<ll, <<"f">>>>, <<<<"x">>, ls>>}

\* parse_and_execute before expand_aliases(&args, &arg_count)
InitAlias ==
  /\ InitJobs /\ IdleVars /\ IdleStream
  /\ line = <<>> /\ trace = <<>> /\ loops = 0 /\ epc = "done"
  /\ cwd = <<"/">> /\ launch = NoLaunch /\ io = NoIo /\ typed = <<>>
  /\ aliases \in AliasTables
  /\ args \in AliasInputs
  /\ cmdline = [kind |-> "alias", text |-> args]
  /\ alias_depth = 0
  /\ wpc = "alias"

SpecAlias == InitAlias /\ [][expand_aliases_pass]_sv

\* C22: expand_aliases returns after at most 10 substitutions of the first
\* word for every alias table, self-referential aliases and cycles included
\* (its loop counter never passes the bound by more than the failing test),
\* and it makes exactly one substitution for an alias whose replacement does
\* not start with an alias.
C22_AliasExpansionIsBounded ==
  /\ Len(trace) <= 10
  /\ alias_depth <= 11
  /\ (/\ wpc = "aliased"
      /\ Len(cmdline.text) > 0
      /\ cmdline.text[1] \in DOMAIN aliases
      /\ Len(strtok_words(aliases[cmdline.text[1]], <<>>, <<>>)) > 0
      /\ strtok_words(aliases[cmdline.text[1]], <<>>, <<>>)[1] \notin DOMAIN aliases)
     => trace = <<cmdline.text[1]>>

\* a table with a cycle has stopped the expansion at its tenth substitution
C22_Witness ==
  /\ wpc = "aliased"
  /\ Len(trace) = 10
  /\ trace[1] # trace[2]

----------------------------------------------------------------------------
(* execute_command and execute_pipeline one system call at a time          *)
(* (shell.c): the parent's fork, setpgid, close, add_job and waitpid and   *)
(* each child's setpgid, tcsetpgrp, builtin and execvp are separate steps, *)
(* so that the children run concurrently with the shell.  launch holds the *)
(* locals of the call; procs is indexed by LaunchPids here.                *)

LaunchPids == 1..(MaxStages + 1)

\* the builtins of execute_builtin that touch only the memory of the caller
LocalBuiltins == {"cd", "export", "alias", "exit"}

Builtins == LocalBuiltins \cup {"fg", "bg"}

NoChild ==
  [st |-> "none", pgid |-> -1, bg |-> FALSE, code |-> 0, reported |-> FALSE,
   stage |-> -1, kind |-> "none", cpgid |-> -1, prepared |-> FALSE,
   at_exec |-> -1, jt |-> <<>>, fds |-> {}, sigs |-> "shell"]

\* both ends of the n - 1 pipes of a pipeline of n stages
PipeEnds(n) == {<<k, e>> : k \in 0..(n - 2), e \in {"r", "w"}}

\* a child that closes none of the pipe descriptors it inherited
stage_fds_inherited(i, n) == PipeEnds(n)

\* the pipe ends stage i of n still holds after its dup2 calls and its loop
\* that closes all pipefds: pipe i - 1 as stdin and pipe i as stdout
stage_fds(i, n) ==
  {e \in PipeEnds(n) : e = <<i - 1, "r">> \/ e = <<i, "w">>}

\* a child that goes on as soon as its setpgid and tcsetpgrp are done
ready_after_setpgid(p) ==
  /\ procs[p].st = "forked"
  /\ procs[p].stage >= 0
  /\ launch.interactive => procs[p].prepared

\* the child fork() returns 0 in: a member of the shell's process group,
\* with a copy of the shell's memory (pgid and the job table), of its
\* descriptors and of its signal dispositions
Child(stage, kind, pgid, bg, jt, fds) ==
  [st |-> "forked", pgid |-> shell_pgid, bg |-> bg, code |-> 0, reported |-> FALSE,
   stage |-> stage, kind |-> kind, cpgid |-> pgid, prepared |-> FALSE,
   at_exec |-> -1, jt |-> jt, fds |-> fds, sigs |-> "shell"]

new_pid(ps) == CHOOSE p \in DOMAIN ps : ps[p].st = "none" /\ \A q \in 1..(p - 1) : ps[q].st # "none"

\* setpgid(p, pg): EACCES once p has called exec, EPERM when pg is neither p
\* nor an existing group; whether it works on a zombie is up to the kernel (zok)
setpgid(ps, p, pg, zok) ==
  IF ps[p].at_exec # -1 THEN ps
  ELSE IF ps[p].st = "zombie" /\ ~zok THEN ps
  ELSE IF pg # p /\ ~GroupExists(ps, pg) THEN ps
  ELSE [ps EXCEPT ![p].pgid = pg]

\* the children of the shell that waitpid(-pg, ...) can report
members(ps, pg) == {p \in DOMAIN ps : ps[p].st \in Live /\ ps[p].pgid = pg}

launchIdle == <<pc, termios, waitJob, waitCtx, wstatus, out, obs, varVars, line, trace,
                loops, epc, streamVars, wordVars, aliases, alias_depth, cwd, io, typed>>

\* execute_pipeline creates its n - 1 pipes before the first fork
create_pipes ==
  /\ launch.at = "start"
  /\ launch' = [launch EXCEPT !.at = "fork", !.pipes = 2 * (launch.n - 1)]
  /\ UNCHANGED <<jobs, procs, tty_pgrp, last_status, launchIdle>>

\* pid = fork(): -1 ends the call at once (perror, return)
fork_stage(ok) ==
  /\ launch.at = "fork"
  /\ IF ok
     THEN LET p == new_pid(procs) IN
          /\ procs' = [procs EXCEPT ![p] = Child(launch.i, launch.kinds[launch.i + 1],
                                                 launch.pgid, launch.bg, jobs,
                                                 PipeEnds(launch.n))]
          /\ launch' = [launch EXCEPT !.at = "parent", !.pid = p]
     ELSE /\ launch' = [launch EXCEPT !.at = "done", !.failed = TRUE,
                                      !.err = Append(@, "fork")]
          /\ UNCHANGED procs
  /\ UNCHANGED <<jobs, tty_pgrp, last_status, launchIdle>>

\* the parent after fork: execute_command calls setpgid only when
\* interactive, execute_pipeline always
parent_setpgid(zok) ==
  /\ launch.at = "parent"
  /\ LET pg == IF launch.pgid = 0 THEN launch.pid ELSE launch.pgid IN
     IF launch.n = 1
     THEN IF launch.interactive
          THEN /\ procs' = setpgid(procs, launch.pid, pg, zok)
               /\ launch' = [launch EXCEPT !.at = "addjob", !.pgid = pg,
                                           !.first_pid = launch.pid]
          ELSE /\ launch' = [launch EXCEPT !.at = "wait"]
               /\ UNCHANGED procs
     ELSE /\ procs' = setpgid(procs, launch.pid, pg, zok)
          /\ launch' = [launch EXCEPT
                          !.at = IF launch.i + 1 < launch.n THEN "fork" ELSE "close",
                          !.i = launch.i + 1, !.pgid = pg,
                          !.first_pid = IF launch.pgid = 0 THEN launch.pid ELSE @]
  /\ UNCHANGED <<jobs, tty_pgrp, last_status, launchIdle>>

\* the parent closes every pipe end after the last fork
close_pipes ==
  /\ launch.at = "close"
  /\ launch' = [launch EXCEPT !.at = IF launch.interactive THEN "addjob" ELSE "wait",
                              !.pipes = 0, !.waits = launch.n]
  /\ UNCHANGED <<jobs, procs, tty_pgrp, last_status, launchIdle>>

\* non-interactive execute_command: waitpid(pid, &status, 0)
command_wait ==
  /\ launch.at = "wait"
  /\ launch.n = 1
  /\ procs[launch.pid].st = "zombie"
  /\ procs' = [procs EXCEPT ![launch.pid].st = "reaped"]
  /\ last_status' = IF procs[launch.pid].code # 0 THEN 1 ELSE 0
  /\ launch' = [launch EXCEPT !.at = "done"]
  /\ UNCHANGED <<jobs, tty_pgrp, launchIdle>>

\* non-interactive execute_pipeline: one waitpid(-pgid, &status, 0) of the
\* for loop; it fails at once (ECHILD) when the group has no child in it
pipeline_wait ==
  /\ launch.at = "wait"
  /\ launch.n > 1
  /\ LET kids == members(procs, launch.pgid) IN
     IF kids = {} THEN UNCHANGED procs
     ELSE \E p \in kids : /\ procs[p].st = "zombie"
                          /\ procs' = [procs EXCEPT ![p].st = "reaped"]
  /\ launch' = [launch EXCEPT !.waits = launch.waits - 1,
                              !.at = IF launch.waits = 1 THEN "done" ELSE "wait"]
  /\ UNCHANGED <<jobs, tty_pgrp, last_status, launchIdle>>

\* add_job and what follows it up to the blocking wait.  With no free slot
\* add_job prints `too many jobs` and returns -1, and job = &jobs[job_id - 1]
\* is jobs[-2]: put_job_in_background writes two ints there; put_job_in_foreground
\* hands whatever pgid it reads there to tcsetpgrp and waitpid, and the caller
\* tests the running field it reads there (any of the outcomes may happen)
launch_add_job(wild) ==
  /\ launch.at = "addjob"
  /\ IF HasFreeSlot(jobs)
     THEN /\ jobs' = add_job(jobs, launch.first_pid, launch.pgid, launch.bg)
          /\ launch' = [launch EXCEPT !.at = IF launch.bg THEN "done" ELSE "fgwait",
                                      !.job_id = alloc_job_slot(jobs) + 1]
          /\ tty_pgrp' = IF launch.bg THEN tty_pgrp
                         ELSE Tcsetpgrp(procs, tty_pgrp, launch.pgid)
          /\ UNCHANGED last_status
     ELSE /\ launch' = [launch EXCEPT !.at = "done", !.job_id = -1, !.oob = TRUE,
                                      !.err = Append(@, "too many jobs")]
          /\ tty_pgrp' = IF launch.bg THEN tty_pgrp ELSE shell_pgid
          /\ last_status' = IF ~launch.bg /\ wild THEN 0 ELSE last_status
          /\ UNCHANGED jobs
  /\ UNCHANGED <<procs, launchIdle>>

\* wait_for_job on the job just added, and the rest of put_job_in_foreground
\* and of its caller once it returns
launch_return(jt, ps) ==
  /\ procs' = ps
  /\ tty_pgrp' = Tcsetpgrp(ps, tty_pgrp, shell_pgid)
  /\ launch' = [launch EXCEPT !.at = "done"]
  /\ IF ~jt[launch.job_id - 1].running
     THEN jobs' = jt /\ UNCHANGED last_status
     ELSE /\ jobs' = remove_job(jt, launch.job_id)
          /\ last_status' = IF launch.n = 1 THEN 0 ELSE last_status

launch_wait ==
  /\ launch.at = "fgwait"
  /\ LET s == launch.job_id - 1
         kids == members(procs, jobs[s].pgid)
         stop == [jobs EXCEPT ![s].running = FALSE]
     IN IF kids = {} THEN launch_return(jobs, procs)
        ELSE \E p \in kids :
               /\ Pending(procs, p)
               /\ IF procs[p].st = "stopped"
                  THEN launch_return(stop, [procs EXCEPT ![p].reported = TRUE])
                  ELSE IF p = jobs[s].pid
                  THEN launch_return(stop, [procs EXCEPT ![p].st = "reaped"])
                  ELSE /\ procs' = [procs EXCEPT ![p].st = "reaped"]
                       /\ UNCHANGED <<jobs, tty_pgrp, last_status, launch>>
  /\ UNCHANGED launchIdle

\* the child of an interactive shell: setpgid(getpid(), pgid) with its copy
\* of pgid, then tcsetpgrp unless background
child_setpgid(p) ==
  /\ launch.interactive
  /\ procs[p].st = "forked"
  /\ procs[p].stage >= 0
  /\ ~procs[p].prepared
  /\ LET pg == IF procs[p].cpgid = 0 THEN p ELSE procs[p].cpgid
         ps == setpgid(procs, p, pg, TRUE)
     IN /\ procs' = [ps EXCEPT ![p].prepared = TRUE]
        /\ tty_pgrp' = IF procs[p].bg THEN tty_pgrp ELSE Tcsetpgrp(ps, tty_pgrp, pg)
  /\ UNCHANGED <<jobs, last_status, launch, launchIdle>>

\* the five signal(..., SIG_DFL) calls that end the interactive block
child_signals(p) ==
  /\ launch.interactive
  /\ procs[p].st = "forked"
  /\ procs[p].prepared
  /\ procs[p].sigs = "shell"
  /\ procs' = [procs EXCEPT ![p].sigs = "default"]
  /\ UNCHANGED <<jobs, tty_pgrp, last_status, launch, launchIdle>>

\* the child is through the `if (shell_is_interactive)` block
ready_to_run(p) ==
  /\ procs[p].st = "forked"
  /\ procs[p].stage >= 0
  /\ launch.interactive => procs[p].prepared /\ procs[p].sigs = "default"

\* execvp of a stage that is not a builtin
child_exec(p) ==
  /\ ready_to_run(p)
  /\ procs[p].kind = "ext"
  /\ procs' = [procs EXCEPT ![p].st = "running", ![p].at_exec = procs[p].pgid,
                            ![p].fds = stage_fds(procs[p].stage, launch.n)]
  /\ UNCHANGED <<jobs, tty_pgrp, last_status, launch, launchIdle>>

\* the fg and bg builtins run by the child p on its copy of the job table,
\* id 1: continue_job, put_job_in_foreground / put_job_in_background.
\* kill(-pgid, SIGCONT) reaches the job from any process of the session.
\* Stage 0 alone still has the terminal as fd 0; a child that is not in the
\* foreground group is stopped by SIGTTOU in tcsetpgrp (its SIGTTOU is
\* SIG_DFL again), before the kill in the first call and after it in the
\* second.  waitpid(-pgid) in the child fails with ECHILD.
continue_in_child(ps, tty, p, foreground) ==
  LET s == find_job_by_id(ps[p].jt, 1)
      pg == ps[p].jt[s].pgid
      exited == [ps EXCEPT ![p].st = "zombie"]
      stopped == [ps EXCEPT ![p].st = "stopped"]
  IN IF s = -1 THEN [procs |-> exited, tty |-> tty]
     ELSE IF ~foreground \/ ps[p].stage > 0
     THEN [procs |-> Sigcont(exited, pg), tty |-> tty]
     ELSE IF tty # ps[p].pgid THEN [procs |-> stopped, tty |-> tty]
     ELSE IF Tcsetpgrp(ps, tty, pg) = tty
     THEN [procs |-> Sigcont(exited, pg), tty |-> Tcsetpgrp(ps, tty, shell_pgid)]
     ELSE [procs |-> Sigcont(stopped, pg), tty |-> pg]

\* a builtin stage: execute_builtin in the child, then _exit(EXIT_SUCCESS)
child_builtin(p) ==
  /\ ready_to_run(p)
  /\ procs[p].kind \in Builtins
  /\ LET r == IF procs[p].kind \in LocalBuiltins
              THEN [procs |-> [procs EXCEPT ![p].st = "zombie"], tty |-> tty_pgrp]
              ELSE continue_in_child(procs, tty_pgrp, p, procs[p].kind = "fg")
     IN /\ procs' = [r.procs EXCEPT
                       ![p].fds = IF r.procs[p].st = "zombie" THEN {}
                                  ELSE stage_fds(procs[p].stage, launch.n)]
        /\ tty_pgrp' = r.tty
  /\ UNCHANGED <<jobs, last_status, launch, launchIdle>>

\* a program exits with code c (c = 3 is also exit(EXIT_FAILURE) after a
\* failed execvp, as far as the shell can tell)
child_exit(p, c) ==
  /\ procs[p].st = "running"
  /\ procs' = [procs EXCEPT ![p].st = "zombie", ![p].code = c, ![p].fds = {}]
  /\ UNCHANGED <<jobs, tty_pgrp, last_status, launch, launchIdle>>

\* the job table before the call: empty, one stopped job (pid 1), or all
\* MAX_JOBS slots taken by stopped jobs, the first of them pid 1
StoppedJob(pid, id) ==
  [pid |-> pid, pgid |-> pid, job_id |-> id,
   running |-> FALSE, foreground |-> FALSE, notified |-> TRUE]

Tables == {"empty", "one", "full"}

table_of(t) ==
  [i \in Slots |-> IF t = "empty" \/ (t = "one" /\ i > 0) THEN FreeJob
                   ELSE StoppedJob(IF i = 0 THEN 1 ELSE MaxStages + 1 + i, i + 1)]

StageKinds == {"ext"} \cup Builtins

\* a simple command reaches execute_command only when it is no builtin; a
\* shell that is not interactive never adds a job
LaunchInputs ==
  {[interactive |-> a, bg |-> b, kinds |-> k, table |-> t] :
     a \in BOOLEAN, b \in BOOLEAN, t \in Tables,
     k \in UNION {[1..n -> StageKinds] : n \in 1..MaxStages}}

InitLaunch ==
  /\ IdleVars /\ IdleStream /\ IdleWords
  /\ line = <<>> /\ trace = <<>> /\ loops = 0 /\ epc = "done"
  /\ aliases = <<>> /\ alias_depth = 0 /\ cwd = <<"/">> /\ io = NoIo /\ typed = <<>>
  /\ pc = "read" /\ termios = "saved" /\ waitJob = -1 /\ waitCtx = "none"
  /\ wstatus = NoStatus /\ out = <<>> /\ obs = <<>>
  /\ tty_pgrp = shell_pgid
  /\ last_status = 0
  /\ \E in \in LaunchInputs :
       /\ Len(in.kinds) = 1 => in.kinds[1] = "ext"
       /\ ~in.interactive => in.table = "empty"
       /\ jobs = table_of(in.table)
       /\ procs = [p \in LaunchPids |->
                     IF p = 1 /\ in.table # "empty"
                     THEN [NoChild EXCEPT !.st = "stopped", !.pgid = 1, !.reported = TRUE,
                                          !.kind = "ext", !.at_exec = 1]
                     ELSE NoChild]
       /\ launch = [at |-> "start", interactive |-> in.interactive, bg |-> in.bg,
                    n |-> Len(in.kinds), kinds |-> in.kinds, table |-> in.table,
                    i |-> 0, pid |-> 0, pgid |-> 0, first_pid |-> 0, pipes |-> 0,
                    waits |-> 0, job_id |-> 0, oob |-> FALSE, failed |-> FALSE,
                    err |-> <<>>]

NextLaunch ==
  \/ create_pipes
  \/ \E ok \in BOOLEAN : fork_stage(ok)
  \/ \E zok \in BOOLEAN : parent_setpgid(zok)
  \/ close_pipes
  \/ command_wait
  \/ pipeline_wait
  \/ \E wild \in BOOLEAN : launch_add_job(wild)
  \/ launch_wait
  \/ \E p \in LaunchPids :
       \/ child_setpgid(p)
       \/ child_signals(p)
       \/ child_exec(p)
       \/ child_builtin(p)
       \/ \E c \in ExitCodes : child_exit(p, c)

SpecLaunch == InitLaunch /\ [][NextLaunch]_sv

\* C23: a builtin run as a pipeline stage changes nothing outside its own
\* child: the step in which the child of a builtin stage runs the builtin
\* leaves the terminal's foreground group, the shell's job table and every
\* other process as they were (cd, export, alias, exit, fg and bg alike).
C23_BuiltinStageIsConfined ==
  [][\A p \in LaunchPids :
       (ready_to_run(p) /\ procs[p].kind \in Builtins /\ procs'[p].st # "forked")
         => /\ tty_pgrp' = tty_pgrp
            /\ jobs' = jobs
            /\ \A q \in LaunchPids \ {p} : procs'[q] = procs[q]]_sv

\* the message msg was written to stderr by the call
Reported(msg) == \E k \in 1..Len(launch.err) : launch.err[k] = msg

\* stages of this call that are still alive
Untracked == {p \in LaunchPids : procs[p].stage >= 0 /\ procs[p].st \in {"forked", "running", "stopped"}}

\* C24: with all MAX_JOBS slots occupied, one more command or pipeline is
\* reported (`too many jobs`) and refused: once the call has returned, no
\* slot outside the table was read or written, the 32 jobs are as they were,
\* and no child of the call is left running.
C24_FullTableRefusesLaunch ==
  (launch.at = "done" /\ launch.table = "full" /\ ~launch.failed)
    => /\ Reported("too many jobs")
       /\ ~launch.oob
       /\ jobs = table_of("full")
       /\ Untracked = {}

\* the pid of stage 0 of the call
Leader == CHOOSE p \in LaunchPids : procs[p].stage = 0

\* C26: under every interleaving, interactive or not, each stage of a
\* pipeline is a member of the group whose pgid is the pid of stage 0 when
\* it calls exec, and a single command is in the group of its own pid.
C26_InGroupBeforeExec ==
  \A p \in LaunchPids :
    (procs[p].stage >= 0 /\ procs[p].at_exec # -1) => procs[p].at_exec = Leader

\* C27: when fork fails, for a single command or partway through a pipeline,
\* the call reports it, sets last_status nonzero, has closed every pipe end
\* it created, leaves no started stage running, and returns with the
\* terminal's foreground group equal to the shell's pgid.
C27_ForkFailureIsCleanedUp ==
  (launch.at = "done" /\ launch.failed)
    => /\ Reported("fork")
       /\ last_status # 0
       /\ launch.pipes = 0
       /\ Untracked = {}
       /\ tty_pgrp = shell_pgid

\* C28: in a non-interactive shell execute_pipeline returns only after all
\* its stages have terminated and been reaped, under every interleaving of
\* the parent's setpgid with the children's exec.
C28_PipelineWaitsForAllStages ==
  (launch.at = "done" /\ ~launch.interactive /\ launch.n > 1 /\ ~launch.failed)
    => \A p \in LaunchPids : procs[p].stage >= 0 => procs[p].st = "reaped"

----------------------------------------------------------------------------
(* fg and bg on a job of the table (Spec, SpecBg) *)

\* the step is the fg or bg builtin resuming the occupied slot s
Resumes(s) ==
  /\ pc = "read"
  /\ jobs[s].pid # -1
  /\ out' = <<<<"Cont", jobs[s].job_id>>>>
  /\ find_job_by_id(jobs, jobs[s].job_id) = s

\* no member of the group pg is left stopped
GroupRuns(ps, pg) == \A p \in DOMAIN ps : ps[p].pgid = pg => ps[p].st # "stopped"

----------------------------------------------------------------------------
(* handle_redirection (io.c), run by the child before execvp *)

Lt == <<"<">>

Gt == <<">">>

GtGt == <<">", ">">>

LtLt == <<"<", "<">>

RedirOps == {Lt, Gt, GtGt, LtLt}

\* what a descriptor of the child is bound to before any redirection
Tty == <<"tty">>

\* the for loop of handle_redirection up to its first strcmp match: the index
\* of the first word from i on that is an operator, 0 when there is none
RECURSIVE first_operator(_, _)
first_operator(a, i) ==
  IF i > Len(a) THEN 0
  ELSE IF a[i] \in RedirOps THEN i
  ELSE first_operator(a, i + 1)

\* open and dup2 of the branch taken for operator op with argument f; `<<`
\* leaves stdin on the read end of the pipe the body is collected into
rebind(fd, op, f) ==
  IF op = Lt THEN [fd EXCEPT !.stdin = <<"read", f>>]
  ELSE IF op = Gt THEN [fd EXCEPT !.stdout = <<"trunc", f>>]
  ELSE IF op = GtGt THEN [fd EXCEPT !.stdout = <<"append", f>>]
  ELSE [fd EXCEPT !.stdin = <<"pipe", f>>]

\* the branch of the operator at i: exit(EXIT_FAILURE) when no word follows
\* it, else the descriptor is rebound, args[i] = NULL, *arg_count = i, break
redirect_at(a, fd, i) ==
  IF i = 0 THEN [argv |-> a, fd |-> fd, exited |-> FALSE]
  ELSE IF i = Len(a) THEN [argv |-> a, fd |-> fd, exited |-> TRUE]
  ELSE [argv |-> SubSeq(a, 1, i - 1), fd |-> rebind(fd, a[i], a[i + 1]), exited |-> FALSE]

handle_redirection(a, fd) == redirect_at(a, fd, first_operator(a, 1))

\* the child of execute_command between fork and execvp
child_redirect ==
  /\ wpc = "redirect"
  /\ LET r == handle_redirection(args, io) IN
     /\ args' = r.argv
     /\ io' = r.fd
     /\ wpc' = IF r.exited THEN "exited" ELSE "exec"
  /\ UNCHANGED <<cmdline, aliases, alias_depth, cwd, launch, typed, jobVars, varVars, line,
                 trace, loops, epc, streamVars>>

\* the longest command of SpecRedir, in words
MaxRedirWords == 5

\* a command name, a file name, and the operators on existing files
RedirWords == {<<"c">>, <<"f">>, Lt, Gt, GtGt}

InitRedir ==
  /\ InitJobs /\ IdleVars /\ IdleStream
  /\ line = <<>> /\ trace = <<>> /\ loops = 0 /\ epc = "done"
  /\ aliases = <<>> /\ alias_depth = 0 /\ cwd = <<"/">> /\ launch = NoLaunch /\ typed = <<>>
  /\ \E ws \in SeqsOf(RedirWords, 1, MaxRedirWords) :
       /\ cmdline = [kind |-> "redirect", words |-> ws, text |-> Sp(ws)]
       /\ args = split_command_line(Sp(ws))
  /\ io = [at |-> "child", stdin |-> Tty, stdout |-> Tty]
  /\ wpc = "redirect"

SpecRedir == InitRedir /\ [][child_redirect]_sv

\* word k of ws is the file argument of an operator
IsFileArg(ws, k) == k > 1 /\ ws[k - 1] \in RedirOps /\ ws[k] \notin RedirOps

RECURSIVE SelectWords(_, _, _)
SelectWords(ws, k, acc) ==
  IF k > Len(ws) THEN acc
  ELSE SelectWords(ws, k + 1,
                   IF ws[k] \in RedirOps \/ IsFileArg(ws, k) THEN acc ELSE Append(acc, ws[k]))

\* the ordinary words of a command, in order
OrdinaryWords(ws) == SelectWords(ws, 1, <<>>)

\* the command has operator op followed by a file
HasRedirection(ws, op) == \E k \in 1..(Len(ws) - 1) : ws[k] = op /\ IsFileArg(ws, k + 1)

\* the command starts with an ordinary word and every operator has a file
WellFormed(ws) ==
  /\ ws[1] \notin RedirOps
  /\ \A k \in 1..Len(ws) : ws[k] \in RedirOps => k < Len(ws) /\ ws[k + 1] \notin RedirOps

\* C33: handle_redirection applies every operator among the words (`< IN`
\* and `> OUT` on one command rebind both stdin and stdout), and the argv
\* handed to exec is all the ordinary words in order, wherever they stand,
\* without the operators and their file arguments.
C33_EveryRedirectionApplied ==
  (wpc = "exec" /\ WellFormed(cmdline.words)) =>
    /\ args = OrdinaryWords(cmdline.words)
    /\ HasRedirection(cmdline.words, Lt) => io.stdin # Tty
    /\ (HasRedirection(cmdline.words, Gt) \/ HasRedirection(cmdline.words, GtGt))
         => io.stdout # Tty

----------------------------------------------------------------------------
(* The `<<` branch of handle_redirection (io.c 70-115) one getline at a    *)
(* time.  io.input is what is left to read on the standard input of the    *)
(* shell process, which the child inherits; in a script or -c run the      *)
(* script was read into lines[] by parse_stream beforehand and the lines   *)
(* after the command are still to be run.                                  *)

\* the lines a pipe holds before write() blocks
PipeCap == 2

\* the longest heredoc body, in lines
MaxBody == 3

EofMark == <<"E">>

\* one pass of the while (1) loop: getline, the comparison with delim, and
\* fprintf(w, "%s\n", line).  stdio may hold the line back in its buffer, but
\* fclose(w) writes it before dup2, so a body that does not fit the pipe
\* blocks in write() with pipefd[0] still unread either way.
heredoc_getline ==
  /\ io.at = "getline"
  /\ IF io.input = <<>>
     THEN io' = [io EXCEPT !.at = "exited"]
     ELSE IF Head(io.input) = io.delim
     THEN io' = [io EXCEPT !.at = "exec", !.input = Tail(@), !.wopen = FALSE,
                           !.stdin = <<"pipe", io.delim>>]
     ELSE IF Len(io.pipe) = PipeCap
     THEN io' = [io EXCEPT !.at = "blocked", !.input = Tail(@)]
     ELSE io' = [io EXCEPT !.input = Tail(@), !.pipe = Append(@, Head(io.input))]
  /\ UNCHANGED <<cmdline, args, wpc, aliases, alias_depth, cwd, launch, typed, jobVars,
                 varVars, line, trace, loops, epc, streamVars>>

\* parse_stream after the command has been waited for: the next of lines[]
\* is no keyword line and goes to parse_and_execute
heredoc_next_line ==
  /\ io.at \in {"exec", "exited"}
  /\ lineno <= Len(lines)
  /\ trace' = Append(trace, split_command_line(lines[lineno]))
  /\ lineno' = lineno + 1
  /\ UNCHANGED <<cmdline, args, wpc, aliases, alias_depth, cwd, launch, io, typed, jobVars,
                 varVars, line, loops, epc, lines, loop_control_flag, exit_code, diag>>

BodyLines == {<<"x">>, <<"y", " ", "z">>}

\* `cat << E` typed at the prompt with the body typed after it, or standing
\* in a script whose shell has the standard input rest
HeredocInputs ==
  {[kind |-> "heredoc", typed |-> TRUE, body |-> b, rest |-> <<>>] :
     b \in SeqsOf(BodyLines, 0, MaxBody)}
  \cup {[kind |-> "heredoc", typed |-> FALSE, body |-> b, rest |-> r] :
          b \in SeqsOf(BodyLines, 0, MaxBody), r \in {<<>>, <<<<"n">>>>}}

InitHeredoc ==
  /\ InitJobs /\ IdleVars
  /\ line = <<>> /\ trace = <<>> /\ loops = 0 /\ epc = "done"
  /\ aliases = <<>> /\ alias_depth = 0 /\ cwd = <<"/">> /\ launch = NoLaunch /\ typed = <<>>
  /\ loop_control_flag = 0 /\ exit_code = -1 /\ diag = <<>>
  /\ cmdline \in HeredocInputs
  /\ args = <<<<"c", "a", "t">>, LtLt, EofMark>>
  /\ wpc = "redirect"
  /\ lines = IF cmdline.typed THEN <<>> ELSE Append(cmdline.body, EofMark)
  /\ lineno = 1
  /\ io = [at |-> "getline", delim |-> EofMark, pipe |-> <<>>, wopen |-> TRUE,
           stdin |-> Tty, stdout |-> Tty,
           input |-> IF cmdline.typed THEN Append(cmdline.body, EofMark) ELSE cmdline.rest]

NextHeredoc == heredoc_getline \/ heredoc_next_line

SpecHeredoc == InitHeredoc /\ [][NextHeredoc]_sv

\* C32: the stdin of a command with `<< DELIM` delivers exactly the lines
\* that follow the command, in order, up to the first line equal to DELIM,
\* with the write end closed before exec, whether the command was typed or
\* stands in a script or -c string, where the body lines are not run as
\* commands.  (Bodies that fit the pipe; see C38 for the others.)
C32_HeredocDeliversBody ==
  Len(cmdline.body) <= PipeCap =>
    /\ io.at \in {"exec", "exited"} =>
         io.at = "exec" /\ io.pipe = cmdline.body /\ ~io.wopen
    /\ trace = <<>>

\* C38: collecting a heredoc completes for a body of any size: the child is
\* never stuck writing into the pipe that only it will read.
C38_HeredocNeverBlocks == io.at # "blocked"

\* the launches whose stages are external programs or the cd builtin, with
\* no earlier job in the table
InitPipe ==
  /\ InitLaunch
  /\ launch.table = "empty"
  /\ \A k \in 1..launch.n : launch.kinds[k] \in {"ext", "cd"}

SpecPipe == InitPipe /\ [][NextLaunch]_sv

\* execute_pipeline is past the loop that closes the parent's pipe ends
ParentClosed == launch.n > 1 /\ ~launch.failed /\ launch.at \in {"addjob", "wait", "fgwait", "done"}

\* the processes that hold the end e of a pipe open
Holders(e) == {p \in LaunchPids : e \in procs[p].fds}

\* the pid of stage i
StagePid(i) == CHOOSE p \in LaunchPids : procs[p].stage = i

\* every stage is through its dup2 calls and its close loop
AllPlumbed == \A p \in LaunchPids : procs[p].st # "forked"

C40_SignalsDefaultBeforeExec ==
  \A p \in LaunchPids :
    (launch.interactive /\ procs[p].stage >= 0) =>
      /\ procs[p].at_exec # -1 => procs[p].sigs = "default"
      /\ procs[p].sigs = "default" => procs[p].prepared

\* an interactive pipeline both of whose stages have called exec
C40_Witness ==
  /\ launch.interactive /\ launch.n > 1
  /\ \A p \in LaunchPids :
       procs[p].stage >= 0 => procs[p].st = "running" /\ procs[p].sigs = "default"
  /\ \E p \in LaunchPids : procs[p].stage = 1

\* C36: a command marked with a trailing `&` is never waited for: the shell
\* never blocks in waitpid for it, interactive or not.
C36_BackgroundIsNotWaitedFor ==
  launch.bg => launch.at \notin {"wait", "fgwait"}

----------------------------------------------------------------------------
(* Claims about the job table's slots and ids *)

\* every occupied slot i holds job_id i + 1
IdsAreSlotIndices(jt) == \A i \in Slots : jt[i].pid # -1 => jt[i].job_id = i + 1

\* no two occupied slots share an id
IdsAreUnique(jt) ==
  \A i, k \in Slots : (jt[i].pid # -1 /\ jt[k].pid # -1 /\ jt[i].job_id = jt[k].job_id) => i = k

\* slot i, free in jt, holds a job in jt2
Taken(jt, jt2, i) == jt[i].pid = -1 /\ jt2[i].pid # -1

\* C39: add_job always takes the lowest-indexed free slot and gives the job
\* the id slot + 1; in every state each occupied slot i holds job_id i + 1
\* and no two occupied slots share an id; and a slot, hence its id, goes to
\* another job only after remove_job has freed it: a slot that is occupied
\* before and after a step holds the same job.
C39_IdsAreDenseSlotIndices ==
  [][/\ IdsAreSlotIndices(jobs') /\ IdsAreUnique(jobs')
     /\ \A i \in Slots :
          /\ Taken(jobs, jobs', i) =>
               /\ \A k \in 0..(i - 1) : jobs[k].pid # -1
               /\ jobs'[i].job_id = i + 1
          /\ (jobs[i].pid # -1 /\ jobs'[i].pid # -1) => jobs'[i].pid = jobs[i].pid]_sv

\* slot 0, freed by remove_job when the first job was reaped, has been taken
\* again by the second job, which has id 1 again
C39_Witness == jobs[0].pid = 2 /\ jobs[0].job_id = 1

====
